---------------------------- MODULE Spec2Model ----------------------------
(***************************************************************************)
(* A model of airfuse's neighbour-based regression core                    *)
(* (src/airfuse/dnr.py, src/airfuse/dnr/_bc.py).                           *)
(*                                                                         *)
(* Floating point values are modelled exactly, without rounding, as pairs  *)
(* <<n, d>> with d >= 0: a rational n/d in lowest terms when d > 0,        *)
(* <<1, 0>> and <<-1, 0>> for +inf and -inf, <<0, 0>> for not-a-number.    *)
(* Arithmetic follows IEEE-754 for the special values (x/0 = inf,          *)
(* 0/0 = nan, inf*0 = nan, inf-inf = nan, nan propagates).                 *)
(***************************************************************************)
EXTENDS Integers, Sequences, FiniteSets, TLC

VARIABLES
    cls,        \* class of the regressor: "Base", "Grouped", "Fused", "BCGrouped"
    weights,    \* self.weights
    dweights,   \* self.delaunay_weights as stored by __init__
    nneigh,     \* self.n_neighbors
    how,        \* self.how of the bias-correction regressors ("unset" elsewhere)
    fitted,     \* FALSE before the first fit
    fitX,       \* self._fit_X: training coordinates, one point per row
    fitY,       \* self._y: training values, one sequence of columns per row
    yndim,      \* self._y.ndim (1 or 2)
    fitW,       \* self._wgt: None or one sample weight per training row
    ug,         \* self._ug: the group labels of the last fit, sorted
    dnrs,       \* self._dnrs: one fitted regressor per group label
    serrkn,     \* self._serrkn: the regressor of the cross-validated errors
    fitargs,    \* the arguments of the last fit call that returned (history)
    last,       \* the last call made, its inputs and its outcome
    df,         \* the table given to the functions that work on tables
    par         \* the tasks of the joblib.Parallel call in flight

vars == <<cls, weights, dweights, nneigh, how, fitted, fitX, fitY, yndim,
          fitW, ug, dnrs, serrkn, fitargs, last, df, par>>

-----------------------------------------------------------------------------
(* Bounds of the model *)

\* largest coordinate of the planar grid the points are drawn from
MaxCoord == 1
\* number of training rows given to fit
NTrain == 3
\* largest n_neighbors
MaxK == 3

-----------------------------------------------------------------------------
(* Exact arithmetic with IEEE special values *)

Abs(x) == IF x < 0 THEN -x ELSE x

Sign(x) == IF x < 0 THEN -1 ELSE IF x > 0 THEN 1 ELSE 0

RECURSIVE GCD(_, _)
GCD(a, b) == IF b = 0 THEN a ELSE GCD(b, a % b)

Norm(n, d) ==
    IF d = 0 THEN <<Sign(n), 0>>
    ELSE LET g == GCD(Abs(n), Abs(d))
             s == Sign(d)
         IN  <<(s * n) \div g, (s * d) \div g>>

NaN == <<0, 0>>
Inf == <<1, 0>>
Zero == <<0, 1>>
One == <<1, 1>>
I(n) == <<n, 1>>

IsNaN(a) == a = NaN
IsInf(a) == a[2] = 0 /\ a[1] # 0
IsFinite(a) == a[2] > 0

FAdd(a, b) ==
    IF IsNaN(a) \/ IsNaN(b) THEN NaN
    ELSE IF IsInf(a) /\ IsInf(b) THEN (IF a = b THEN a ELSE NaN)
    ELSE IF IsInf(a) THEN a
    ELSE IF IsInf(b) THEN b
    ELSE LET g == GCD(a[2], b[2])
         IN  Norm(a[1] * (b[2] \div g) + b[1] * (a[2] \div g),
                  (a[2] \div g) * b[2])

FMul(a, b) ==
    IF a[2] = 0 \/ b[2] = 0 \/ a[1] = 0 \/ b[1] = 0
    THEN Norm(a[1] * b[1], a[2] * b[2])
    ELSE LET g == GCD(Abs(a[1]), b[2])
             h == GCD(Abs(b[1]), a[2])
         IN  <<(a[1] \div g) * (b[1] \div h), (a[2] \div h) * (b[2] \div g)>>

FNeg(a) == <<-a[1], a[2]>>

FSub(a, b) == FAdd(a, FNeg(b))

\* 1/a: 1/0 = inf, 1/inf = 0, 1/nan = nan
FRecip(a) ==
    IF a[1] > 0 THEN <<a[2], a[1]>>
    ELSE IF a[1] < 0 THEN <<-a[2], -a[1]>>
    ELSE IF a[2] > 0 THEN Inf
    ELSE NaN

FDiv(a, b) == FMul(a, FRecip(b))

\* a < b as numpy compares floats: FALSE when either side is nan
FLess(a, b) ==
    /\ ~IsNaN(a) /\ ~IsNaN(b)
    /\ a # b
    /\ IF IsInf(a) THEN a[1] < 0
       ELSE IF IsInf(b) THEN b[1] > 0
       ELSE a[1] * b[2] < b[1] * a[2]

\* the array f with every element evaluated once: TLC evaluates a function
\* expression anew at each application
Eval(f) == f \o <<>>

RECURSIVE SumSeq(_)
SumSeq(s) == IF s = <<>> THEN Zero ELSE FAdd(Head(s), SumSeq(Tail(s)))

\* elementwise product of two arrays of the same length
MulSeq(a, b) == Eval([i \in 1..Len(a) |-> FMul(a[i], b[i])])


-----------------------------------------------------------------------------
(* Arrays that may be None, and the outcome of a call *)

NoneArr == [none |-> TRUE, v |-> <<>>]
Arr(v) == [none |-> FALSE, v |-> v]

\* labels of the groups a Grouped or Fused regressor may be fit with
Groups == {"a", "b"}

-----------------------------------------------------------------------------
(* Geometry: sklearn's kneighbors and scipy's Delaunay as the code uses them *)

Coords == 0..MaxCoord
Points == Coords \X Coords

\* minkowski metric with p = 1, a value the constructor's p accepts; it keeps
\* every distance of the integer grid exact
Dist(p, q) == Abs(p[1] - q[1]) + Abs(p[2] - q[2])

\* self.kneighbors(X): the k training rows nearest to q, nearest first,
\* ties in index order; X is the sequence of training points
KNeighborsInd(X, q, k) ==
    LET before(i, j) == \/ Dist(X[i], q) < Dist(X[j], q)
                        \/ Dist(X[i], q) = Dist(X[j], q) /\ i < j
        rank(i) == Cardinality({j \in 1..Len(X) : before(j, i)})
    IN  Eval([r \in 1..k |-> CHOOSE i \in 1..Len(X) : rank(i) = r - 1])

KNeighborsDist(X, q, ind) == Eval([r \in 1..Len(ind) |-> I(Dist(X[ind[r]], q))])

Collinear(a, b, c) ==
    (b[1] - a[1]) * (c[2] - a[2]) - (b[2] - a[2]) * (c[1] - a[1]) = 0

\* Delaunay(newxy) raises QhullError when the local point set (the k
\* neighbours and the query point) holds no three points that span the plane:
\* fewer than three points, duplicates only, or all points on one line
Degenerate(pts) == \A a \in pts : \A b \in pts : \A c \in pts : Collinear(a, b, c)

\* What tri_neighbors[tri_indicies[k]:tri_indicies[k + 1]] can hold for the
\* query vertex (positions 1..k of the neighbours): "QhullError" is the set
\* {0}; a query point that is a vertex of a triangulation has at least two
\* adjacent vertices; a query point that coincides with a neighbour is either
\* dropped as a duplicate (no adjacency at all) or kept as the vertex
TriOutcomes(srcX, q) ==
    LET k == Len(srcX)
        pts == {srcX[i] : i \in 1..k} \cup {q}
        coincident == \E i \in 1..k : srcX[i] = q
    IN  IF Degenerate(pts) THEN {{0}}
        ELSE {S \in SUBSET (1..k) :
                \/ Cardinality(S) >= 2
                \/ S = {} /\ coincident}

QhullError(tri) == tri = {0}

\* _isdelaunay for one query row with n_jobs=None, given the triangulation's
\* adjacency of the query vertex: the mask, nearest three forced when empty
IsDelaunayRow(k, tri) ==
    LET isdn == Eval([i \in 1..k |-> i \in tri])
    IN  IF \A i \in 1..k : ~isdn[i]
        THEN Eval([i \in 1..k |-> i <= 3])
        ELSE isdn

-----------------------------------------------------------------------------
(* Weight policy *)

\* the user-supplied weight callables of the tests: lambda d: max(d, c)**-2
ClipInvSq(d, c) ==
    LET m == IF FLess(d, I(c)) THEN I(c) ELSE d
    IN  FRecip(FMul(m, m))

\* _get_weights without the zero-distance rule: 1/dist whatever the row holds
GetWeightsFnNoZeroRule(dist, wkind, clip) ==
    IF wkind = "uniform" THEN NoneArr
    ELSE IF wkind = "distance" THEN
        Arr(Eval([i \in 1..Len(dist.v) |-> FRecip(dist.v[i])]))
    ELSE IF wkind = "callable" THEN
        Arr(Eval([i \in 1..Len(dist.v) |-> ClipInvSq(dist.v[i], clip)]))
    ELSE NoneArr

\* module-level _get_weights(dist, weights) for one row of distances;
\* wkind is the weights argument, clip the parameter of a callable
GetWeightsFn(dist, wkind, clip) ==
    IF wkind = "uniform" THEN NoneArr
    ELSE IF wkind = "distance" THEN
        LET inv == Eval([i \in 1..Len(dist.v) |-> FRecip(dist.v[i])])
            inf_mask == Eval([i \in 1..Len(inv) |-> IsInf(inv[i])])
            inf_row == \E i \in 1..Len(inv) : inf_mask[i]
        IN  IF inf_row
            THEN Arr(Eval([i \in 1..Len(inv) |-> IF inf_mask[i] THEN One ELSE Zero]))
            ELSE Arr(inv)
    ELSE IF wkind = "callable" THEN
        Arr(Eval([i \in 1..Len(dist.v) |-> ClipInvSq(dist.v[i], clip)]))
    ELSE NoneArr

\* the closures __init__ stores in self.delaunay_weights, applied to one row:
\* dw is [kind, s]; the result is [err, w]
DelaunayWeights(dw, isdn, w) ==
    LET k == Len(isdn)
        ind == Eval([i \in 1..k |-> IF isdn[i] THEN One ELSE Zero])
    IN  IF dw.kind = "equal" THEN [err |-> "", w |-> Arr(ind)]
        ELSE IF dw.kind = "only" THEN
            [err |-> "", w |-> IF w.none THEN Arr(ind) ELSE Arr(MulSeq(w.v, ind))]
        ELSE IF dw.kind = "scale" THEN
            IF w.none THEN [err |-> "TypeError", w |-> NoneArr]
            ELSE [err |-> "",
                  w |-> Arr(Eval([i \in 1..k |->
                        FMul(IF isdn[i] THEN I(dw.s) ELSE One, w.v[i])]))]
        ELSE [err |-> "TypeError", w |-> NoneArr]

-----------------------------------------------------------------------------
(* DelaunayNeighborsRegressor *)

\* F(v) with v evaluated once: TLC evaluates a LET definition anew at each use
Once(v, F(_)) == CHOOSE out \in {F(x) : x \in {v}} : TRUE

\* a fitted DelaunayNeighborsRegressor: its parameters and what fit stored
Dnr(w, dw, k, X, y, ndim, wgt) ==
    [weights |-> w, delaunay_weights |-> dw, n_neighbors |-> k,
     fit_X |-> X, y |-> y, ndim |-> ndim, wgt |-> wgt]

\* the weightf GroupedDelaunayNeighborsRegressor.predict hands to group g's
\* _get_weights: [kind, clip]
WeightF(w, g) ==
    IF w.kind = "dict" THEN [kind |-> "callable", clip |-> w.clip[g]]
    ELSE [kind |-> w.kind, clip |-> w.clip[g]]

\* the weightf of a regressor's own predict: self.weights itself
SelfWeightF(w) == [kind |-> w.kind, clip |-> w.clip["a"]]

\* _get_weights, the kneighbors call: the neighbours of query row q and their
\* distances, which are not computed (None) under weights="uniform"
Neighbours(self, q) ==
    Once(KNeighborsInd(self.fit_X, q, self.n_neighbors), LAMBDA neigh_ind :
        [ind |-> neigh_ind,
         dist |-> IF self.weights.kind = "uniform" THEN NoneArr
                  ELSE Arr(KNeighborsDist(self.fit_X, q, neigh_ind))])

\* _get_weights, the base weights and the mask: what _isdelaunay returned
\* (isd) and the mask handed to the policy (isdn), which marks the neighbours
\* at distance 0 as well; None == 0 is False, so without distances no
\* neighbour is added
BaseAndMask(self, tri, weightf, nb) ==
    Once(IsDelaunayRow(self.n_neighbors, tri), LAMBDA isd :
        [base |-> GetWeightsFn(nb.dist, weightf.kind, weightf.clip),
         isd |-> isd,
         isdn |-> Eval([i \in 1..self.n_neighbors |->
                    isd[i] \/ (~nb.dist.none /\ nb.dist.v[i] = Zero)])])

\* _get_weights, the policy: [err, w]
PolicyWeights(self, tri, m) ==
    IF self.delaunay_weights.kind = "None" THEN [err |-> "", w |-> m.base]
    ELSE IF QhullError(tri) THEN [err |-> "QhullError", w |-> NoneArr]
    ELSE DelaunayWeights(self.delaunay_weights, m.isdn, m.base)

\* _get_weights, the sample weights: weights *= self._wgt[neigh_ind], which
\* raises TypeError when weights is None
FinalWeights(self, nb, pw) ==
    IF pw.err # "" THEN [err |-> pw.err, w |-> NoneArr]
    ELSE IF self.wgt.none THEN pw
    ELSE IF pw.w.none THEN [err |-> "TypeError", w |-> NoneArr]
    ELSE [err |-> "",
          w |-> Arr(Eval([i \in 1..self.n_neighbors |->
                    FMul(pw.w.v[i], self.wgt.v[nb.ind[i]])]))]

\* DelaunayNeighborsRegressor._get_weights for one query row q; tri is what
\* the triangulation of the row gives. The result holds the error raised (""
\* when none) and every value the method computes on its way: the neighbours
\* (ind), their distances (dist, None under "uniform"), the base weights
\* (base), whether _isdelaunay was called, what it returned (isd), the mask
\* handed to the delaunay_weights policy (isdn, when handed), the policy's
\* weights (pw) and the final weights (w)
GetWeightsRow(self, q, tri, weightf) ==
    Once(Neighbours(self, q), LAMBDA nb :
    Once(BaseAndMask(self, tri, weightf, nb), LAMBDA m :
    Once(PolicyWeights(self, tri, m), LAMBDA pw :
    Once(FinalWeights(self, nb, pw), LAMBDA fw :
        LET policy == self.delaunay_weights.kind # "None"
            handed == policy /\ ~QhullError(tri)
        IN  [err |-> fw.err, ind |-> nb.ind, dist |-> nb.dist, base |-> m.base,
             called |-> policy,
             isd |-> IF handed THEN m.isd ELSE <<>>,
             handed |-> handed,
             isdn |-> IF handed THEN m.isdn ELSE <<>>,
             pw |-> pw,
             w |-> fw.w]))))

\* the error a batch of _get_weights rows raises: _isdelaunay runs over all
\* rows before the policy is applied
BatchErr(gw) ==
    IF \E r \in 1..Len(gw) : gw[r].err = "QhullError" THEN "QhullError"
    ELSE IF \E r \in 1..Len(gw) : gw[r].err # "" THEN "TypeError"
    ELSE ""

\* num / denom of one row and one column: the weighted mean of the values
\* ys under the weights ws
WeightedMean(ys, ws) == FDiv(SumSeq(MulSeq(ys, ws)), SumSeq(ws))

\* predict after _get_weights: the mean of the neighbours' values when the
\* weights are None, else num / denom by column; gw[r] is the _get_weights
\* result of query row r
BaseCombine(self, gw) ==
    LET k == self.n_neighbors
        nout == Len(self.y[1])
        col(r, j) == Eval([i \in 1..k |-> self.y[gw[r].ind[i]][j]])
        y_pred == Eval([r \in 1..Len(gw) |-> Eval([j \in 1..nout |->
                     IF gw[r].w.none
                     THEN FDiv(SumSeq(col(r, j)), I(k))
                     ELSE WeightedMean(col(r, j), gw[r].w.v)])])
    IN  IF BatchErr(gw) # ""
        THEN [err |-> BatchErr(gw), ndim |-> 0, rows |-> <<>>, gw |-> gw]
        ELSE [err |-> "", ndim |-> self.ndim, rows |-> y_pred, gw |-> gw]

\* DelaunayNeighborsRegressor.predict for the query rows Q; T[r] is what the
\* triangulation of row r gives. The result is [err, ndim, rows, gw]; a result
\* of ndim 1 is the ravelled single column
BasePredict(self, Q, T) ==
    Once(Eval([r \in 1..Len(Q) |->
                 GetWeightsRow(self, Q[r], T[r], SelfWeightF(self.weights))]),
         LAMBDA gw : BaseCombine(self, gw))

-----------------------------------------------------------------------------
(* GroupedDelaunayNeighborsRegressor and FusedDelaunayNeighborsRegressor *)

\* np.unique(groups) lists the labels in sorted order
GroupOrder == <<"a", "b">>

RECURSIVE Flatten(_)
Flatten(ss) == IF ss = <<>> THEN <<>> ELSE Head(ss) \o Flatten(Tail(ss))

Ones(k) == Eval([i \in 1..k |-> One])

\* GroupedDelaunayNeighborsRegressor.predict, the loop over self._ug: group
\* n's _get_weights result for every query row, by its own regressor
GroupedWeights(w, u, ds, Q, T) ==
    Eval([n \in 1..Len(u) |-> Eval([r \in 1..Len(Q) |->
        GetWeightsRow(ds[u[n]], Q[r], T[u[n]][r], WeightF(w, u[n]))])])

\* a combination that normalizes by group first: the mean over the groups of
\* each group's own weighted mean
GroupedCombineByGroup(u, ds, nq, gw) ==
    LET ng == Len(u)
        wrow(n, r) == IF gw[n][r].w.none THEN Ones(ds[u[n]].n_neighbors)
                      ELSE gw[n][r].w.v
        yrow(n, r, j) == Eval([i \in 1..ds[u[n]].n_neighbors |->
                                ds[u[n]].y[gw[n][r].ind[i]][j]])
        nout == Len(ds[u[ng]].y[1])
        y_pred == Eval([r \in 1..nq |-> Eval([j \in 1..nout |->
                     FDiv(SumSeq(Eval([n \in 1..ng |->
                            WeightedMean(yrow(n, r, j), wrow(n, r))])), I(ng))])])
    IN  IF \E n \in 1..ng : BatchErr(gw[n]) # "" \/ ds[u[ng]].ndim = 1
        THEN [err |-> "Error", ndim |-> 0, rows |-> <<>>, gw |-> gw]
        ELSE [err |-> "", ndim |-> 2, rows |-> y_pred, gw |-> gw]

\* GroupedDelaunayNeighborsRegressor.predict after the loop: the weights and
\* the values of all groups are concatenated in the order of self._ug, None
\* weights count as ones, and every column is num / denom over all of them
GroupedCombine(u, ds, nq, gw) ==
    LET ng == Len(u)
        errs == Eval([n \in 1..ng |-> BatchErr(gw[n])])
        err == IF \E n \in 1..ng : errs[n] # ""
               THEN errs[CHOOSE n \in 1..ng :
                           errs[n] # "" /\ \A m \in 1..(n - 1) : errs[m] = ""]
               ELSE ""
        dnr == ds[u[ng]]
        wrow(n, r) == IF gw[n][r].w.none THEN Ones(ds[u[n]].n_neighbors)
                      ELSE gw[n][r].w.v
        wcat(r) == Flatten(Eval([n \in 1..ng |-> wrow(n, r)]))
        ycat(r, j) == Flatten(Eval([n \in 1..ng |->
                        Eval([i \in 1..ds[u[n]].n_neighbors |->
                                ds[u[n]].y[gw[n][r].ind[i]][j]])]))
        nout == Len(dnr.y[1])
        y_pred == Eval([r \in 1..nq |-> Once(wcat(r), LAMBDA ws :
                     Eval([j \in 1..nout |-> WeightedMean(ycat(r, j), ws)]))])
    IN  IF err # "" THEN [err |-> err, ndim |-> 0, rows |-> <<>>, gw |-> gw]
        ELSE IF dnr.ndim = 1
        THEN [err |-> "IndexError", ndim |-> 0, rows |-> <<>>, gw |-> gw]
        ELSE [err |-> "", ndim |-> 2, rows |-> y_pred, gw |-> gw]

\* GroupedDelaunayNeighborsRegressor.predict: w is self.weights, u is
\* self._ug, ds is self._dnrs, T[g][r] what the triangulation of row r gives
\* in group g's regressor. The result is [err, ndim, rows, gw]
GroupedPredict(w, u, ds, Q, T) ==
    Once(GroupedWeights(w, u, ds, Q, T),
         LAMBDA gw : GroupedCombine(u, ds, Len(Q), gw))

\* the fusion_weight callables of the tests, for one query row:
\* c * max(distance to the group's nearest training point, clip)**-2
FusionWeight(fw, dnr, q) ==
    LET ind == KNeighborsInd(dnr.fit_X, q, 1)
        mind == KNeighborsDist(dnr.fit_X, q, ind)[1]
    IN  FMul(fw.c, ClipInvSq(mind, fw.clip))

\* a combination that pairs every prediction with the fusion weight of the
\* group at the mirrored position
FusedCombineMirrored(exdnr, nq, preds, scales) ==
    LET ng == Len(preds)
        nout == Len(exdnr.y[1])
        y_pred == Eval([r \in 1..nq |-> Eval([j \in 1..nout |->
                     WeightedMean(Eval([n \in 1..ng |-> preds[n].rows[r][j]]),
                                  Eval([n \in 1..ng |-> scales[r][ng + 1 - n]]))])])
    IN  IF exdnr.ndim = 1 \/ \E n \in 1..ng : preds[n].err # ""
        THEN [err |-> "Error", ndim |-> 0, rows |-> <<>>, preds |-> <<>>, scales |-> <<>>]
        ELSE [err |-> "", ndim |-> 2, rows |-> y_pred,
              preds |-> Eval([n \in 1..ng |-> preds[n].rows]), scales |-> scales]

\* FusedDelaunayNeighborsRegressor.predict after the loop: preds[n] is the
\* prediction of the n-th regressor iterated, scales[r][n] its fusion weight
\* at row r
FusedCombine(exdnr, nq, preds, scales) ==
    LET ng == Len(preds)
        nout == Len(exdnr.y[1])
        err == IF exdnr.ndim = 1 THEN "IndexError"
               ELSE IF \E n \in 1..ng : preds[n].err # ""
               THEN preds[CHOOSE n \in 1..ng :
                       preds[n].err # "" /\ \A m \in 1..(n - 1) : preds[m].err = ""].err
               ELSE ""
        y_pred == Eval([r \in 1..nq |-> Eval([j \in 1..nout |->
                     WeightedMean(Eval([n \in 1..ng |-> preds[n].rows[r][j]]),
                                  scales[r])])])
    IN  IF err # ""
        THEN [err |-> err, ndim |-> 0, rows |-> <<>>, preds |-> <<>>, scales |-> <<>>]
        ELSE [err |-> "", ndim |-> 2, rows |-> y_pred,
              preds |-> Eval([n \in 1..ng |-> preds[n].rows]), scales |-> scales]

\* FusedDelaunayNeighborsRegressor.predict: fusion is self.fusion_weight, one
\* callable per group; order is the order in which self._dnrs (ds) is
\* iterated. The result is [err, ndim, rows, preds, scales]
FusedPredict(fusion, order, ds, Q, T) ==
    Once(Eval([n \in 1..Len(order) |-> BasePredict(ds[order[n]], Q, T[order[n]])]),
         LAMBDA preds :
    Once(Eval([r \in 1..Len(Q) |-> Eval([n \in 1..Len(order) |->
                 FusionWeight(fusion[order[n]], ds[order[n]], Q[r])])]),
         LAMBDA scales :
             FusedCombine(ds[order[1]], Len(Q), preds, scales)))

-----------------------------------------------------------------------------
(* Inputs *)

WUniform == [kind |-> "uniform", clip |-> [g \in Groups |-> 1]]
WDistance == [kind |-> "distance", clip |-> [g \in Groups |-> 1]]
WCallable == [kind |-> "callable", clip |-> [g \in Groups |-> 1]]
WDict == [kind |-> "dict", clip |-> [g \in Groups |-> IF g = "a" THEN 1 ELSE 2]]

\* a weights string that names no weighting
WUnknown == [kind |-> "str", clip |-> [g \in Groups |-> 1]]

\* the delaunay_weights argument: a known string literal, None, or a number
DWNone == [kind |-> "None", s |-> 0]
DWEqual == [kind |-> "equal", s |-> 0]
DWOnly == [kind |-> "only", s |-> 0]
DWScale(s) == [kind |-> "scale", s |-> s]
\* a delaunay_weights string that names no policy: __init__ stores it as it is
DWUnknown == [kind |-> "str", s |-> 0]

\* training coordinates: NTrain grid points, listed in grid order
Code(p) == p[1] * (MaxCoord + 1) + p[2]
TrainX(n) == {X \in [1..n -> Points] :
                \A i \in 1..n : \A j \in 1..n : i < j => Code(X[i]) <= Code(X[j])}

\* sample_weight: None, or one non-negative weight per training row
SampleWeights(n) == {NoneArr} \cup {Arr(v) : v \in [1..n -> {I(0), I(2)}]}

-----------------------------------------------------------------------------
(* State machine: construction, fit and the calls on a fitted regressor *)

NoCall == [op |-> "none"]

\* no self._serrkn attribute
NoSerrkn == [set |-> FALSE, ug |-> <<>>, dnrs |-> <<>>]

\* no fit has returned yet
NoFit == [X |-> <<>>, y |-> <<>>, ndim |-> 0, sw |-> NoneArr, groups |-> <<>>]

\* a call of fit that raised
FitRaised(e, X, y) == [op |-> "fit", err |-> e, rows |-> <<Len(X), Len(y)>>]

\* no table is at hand
NoTable == [rows |-> <<>>, out |-> <<>>]

\* no Parallel call is in flight
NoPar == [on |-> FALSE, k |-> 0, tris |-> <<>>, n_jobs |-> 0, se |-> <<>>,
          done |-> <<>>, order |-> <<>>]

\* __init__ of DelaunayNeighborsRegressor and its subclasses: a new, unfitted
\* regressor with the given parameters
Constructed(c, w, dw, k, h) ==
    /\ cls = c
    /\ weights = w
    /\ dweights = dw
    /\ nneigh = k
    /\ how = h
    /\ fitted = FALSE
    /\ fitX = <<>>
    /\ fitY = <<>>
    /\ yndim = 0
    /\ fitW = NoneArr
    /\ ug = <<>>
    /\ dnrs = <<>>
    /\ serrkn = NoSerrkn
    /\ fitargs = NoFit
    /\ last = NoCall
    /\ df = NoTable
    /\ par = NoPar

\* a fit that stores the rows X and y share and drops the others
BaseFitTruncates(X, y, ndim, sw) ==
    LET n == IF Len(X) < Len(y) THEN Len(X) ELSE Len(y)
    IN  /\ cls = "Base"
        /\ nneigh <= n
        /\ fitted' = TRUE
        /\ fitX' = SubSeq(X, 1, n)
        /\ fitY' = SubSeq(y, 1, n)
        /\ yndim' = ndim
        /\ fitW' = sw
        /\ fitargs' = [X |-> X, y |-> y, ndim |-> ndim, sw |-> sw,
                       groups |-> <<>>]
        /\ last' = NoCall
        /\ UNCHANGED <<par, df, cls, weights, dweights, nneigh, how, ug, dnrs,
                       serrkn>>

\* DelaunayNeighborsRegressor.fit(X, y, sample_weight) with at least
\* n_neighbors rows in X: KNeighborsRegressor.fit validates the parameters it
\* knows (weights among them, delaunay_weights not), then X and y, before it
\* stores anything, and raises ValueError when their row counts differ;
\* sample_weight is stored as it is given
BaseFit(X, y, ndim, sw) ==
    /\ cls = "Base"
    /\ nneigh <= Len(X)
    /\ IF weights.kind = "str"
       THEN /\ last' = FitRaised("InvalidParameterError", X, y)
            /\ UNCHANGED <<fitted, fitX, fitY, yndim, fitW, fitargs>>
       ELSE IF Len(X) # Len(y)
       THEN /\ last' = FitRaised("ValueError", X, y)
            /\ UNCHANGED <<fitted, fitX, fitY, yndim, fitW, fitargs>>
       ELSE /\ fitted' = TRUE
            /\ fitX' = X
            /\ fitY' = y
            /\ yndim' = ndim
            /\ fitW' = sw
            /\ fitargs' = [X |-> X, y |-> y, ndim |-> ndim, sw |-> sw,
                           groups |-> <<>>]
            /\ last' = NoCall
    /\ UNCHANGED <<par, df, cls, weights, dweights, nneigh, how, ug, dnrs, serrkn>>

\* the regressor as a DelaunayNeighborsRegressor value
Self == Dnr(weights, dweights, nneigh, fitX, fitY, yndim, fitW)

\* what the triangulation can give for query row q of regressor self; it is
\* computed only when a Delaunay policy is in effect
Tri(self, q) ==
    IF self.delaunay_weights.kind = "None" THEN {{}}
    ELSE TriOutcomes([i \in 1..self.n_neighbors |->
                        self.fit_X[KNeighborsInd(self.fit_X, q, self.n_neighbors)[i]]], q)

\* self._get_weights(X) for one query row, as predict calls it
GetWeights ==
    /\ cls = "Base"
    /\ fitted
    /\ \E q \in Points : \E tri \in Tri(Self, q) :
          last' = [op |-> "_get_weights", q |-> q, tri |-> tri,
                   out |-> GetWeightsRow(Self, q, tri, SelfWeightF(weights))]
    /\ UNCHANGED <<par, df, cls, weights, dweights, nneigh, how, fitted, fitX, fitY,
                   yndim, fitW, ug, dnrs, serrkn, fitargs>>

\* training values that play no part in the weights
PlainY(n) == [i \in 1..n |-> <<I(i)>>]

\* a DelaunayNeighborsRegressor under every weights mode and Delaunay policy
InitWeights ==
    \E w \in {WUniform, WDistance, WCallable} :
    \E dw \in {DWNone, DWEqual, DWOnly, DWScale(2)} :
    \E k \in 1..MaxK :
       Constructed("Base", w, dw, k, "unset")

\* fit overwrites all it stores and _get_weights stores nothing, so a second
\* fit or call reaches no state the first does not: the regressor is fit once
\* and queried once
NextWeights ==
    \/ /\ ~fitted
       /\ \E X \in TrainX(NTrain) : \E sw \in SampleWeights(NTrain) :
             BaseFit(X, PlainY(NTrain), 2, sw)
    \/ /\ last = NoCall
       /\ GetWeights

SpecWeights == InitWeights /\ [][NextWeights]_vars

-----------------------------------------------------------------------------
(* Grouped and Fused regressors: fit and predict *)

RECURSIVE Sel(_, _, _)
\* seq[groups == g]: the rows of seq whose label is g, in row order
Sel(seq, groups, g) ==
    IF seq = <<>> THEN <<>>
    ELSE (IF Head(groups) = g THEN <<Head(seq)>> ELSE <<>>)
         \o Sel(Tail(seq), Tail(groups), g)

\* np.unique(groups)
Unique(groups) ==
    SelectSeq(GroupOrder, LAMBDA g : \E i \in 1..Len(groups) : groups[i] = g)

\* the loop of GroupedDelaunayNeighborsRegressor.fit: one
\* DelaunayNeighborsRegressor per label, fit on the label's rows
FitDnrs(w, dw, k, X, y, ndim, sw, groups) ==
    [g \in {groups[i] : i \in 1..Len(groups)} |->
        Dnr(w, dw, k, Sel(X, groups, g), Sel(y, groups, g), ndim,
            IF sw.none THEN NoneArr ELSE Arr(Sel(sw.v, groups, g)))]

\* the rows of X, y and sample_weight are all selected by groups == g: a
\* boolean mask of another length than the array raises IndexError
MaskMismatch(X, y, sw, groups) ==
    \/ Len(X) # Len(groups)
    \/ Len(y) # Len(groups)
    \/ ~sw.none /\ Len(sw.v) # Len(groups)

\* GroupedDelaunayNeighborsRegressor.fit(X, y, sample_weight, groups), every
\* group of at least n_neighbors rows: self._dnrs is emptied and self._ug set
\* before the loop, which raises at the first label when the row counts
\* differ, or when the fit of the first group's regressor rejects weights
GroupedFitBody(X, y, ndim, sw, groups) ==
    /\ ug' = Unique(groups)
    /\ IF MaskMismatch(X, y, sw, groups) \/ weights.kind = "str"
       THEN /\ fitted' = FALSE
            /\ dnrs' = <<>>
            /\ last' = FitRaised(IF MaskMismatch(X, y, sw, groups)
                                 THEN "IndexError" ELSE "InvalidParameterError",
                                 X, y)
            /\ UNCHANGED fitargs
       ELSE /\ \A g \in Groups :
                 Len(Sel(X, groups, g)) \in {0} \cup (nneigh..Len(X))
            /\ fitted' = TRUE
            /\ dnrs' = FitDnrs(weights, dweights, nneigh, X, y, ndim, sw, groups)
            /\ fitargs' = [X |-> X, y |-> y, ndim |-> ndim, sw |-> sw,
                           groups |-> groups]
            /\ last' = NoCall
    /\ UNCHANGED <<par, df, cls, weights, dweights, nneigh, fitX, fitY, yndim, fitW>>

GroupedFit(X, y, ndim, sw, groups) ==
    /\ cls \in {"Grouped", "Fused"}
    /\ GroupedFitBody(X, y, ndim, sw, groups)
    /\ UNCHANGED <<how, serrkn>>

RECURSIVE TriSeqs(_, _)
\* what the triangulations can give for the query rows Q of regressor self
TriSeqs(self, Q) ==
    IF Q = <<>> THEN {<<>>}
    ELSE {<<t>> \o rest : t \in Tri(self, Head(Q)), rest \in TriSeqs(self, Tail(Q))}

RECURSIVE TriMaps(_, _, _)
\* the same for every regressor of ds, by group label
TriMaps(u, ds, Q) ==
    IF u = <<>> THEN {<<>>}
    ELSE {(Head(u) :> t) @@ rest :
            t \in TriSeqs(ds[Head(u)], Q), rest \in TriMaps(Tail(u), ds, Q)}

\* the query batches: every single row, and one batch of two rows
Batches == {<<q>> : q \in Points} \cup {<< <<0, 0>>, <<MaxCoord, MaxCoord>> >>}

\* DelaunayNeighborsRegressor.predict(X)
PredictBase ==
    /\ cls = "Base"
    /\ fitted
    /\ \E Q \in Batches : \E T \in TriSeqs(Self, Q) :
          last' = [op |-> "predict", Q |-> Q, T |-> T, out |-> BasePredict(Self, Q, T)]
    /\ UNCHANGED <<par, df, cls, weights, dweights, nneigh, how, fitted, fitX, fitY,
                   yndim, fitW, ug, dnrs, serrkn, fitargs>>

\* GroupedDelaunayNeighborsRegressor.predict(X)
PredictGrouped ==
    /\ cls = "Grouped"
    /\ fitted
    /\ \E Q \in Batches : \E T \in TriMaps(ug, dnrs, Q) :
          last' = [op |-> "predict", Q |-> Q, T |-> T,
                   out |-> GroupedPredict(weights, ug, dnrs, Q, T)]
    /\ UNCHANGED <<par, df, cls, weights, dweights, nneigh, how, fitted, fitX, fitY,
                   yndim, fitW, ug, dnrs, serrkn, fitargs>>

\* self.fusion_weight: the callables of the tests, [c, clip] per group
Fusion == [g \in Groups |-> IF g = "a" THEN [c |-> One, clip |-> 1]
                            ELSE [c |-> <<1, 4>>, clip |-> 2]]

\* FusedDelaunayNeighborsRegressor.predict(X); self._dnrs is iterated in the
\* order fit inserted the groups, which is the order of self._ug
PredictFused ==
    /\ cls = "Fused"
    /\ fitted
    /\ \E Q \in Batches : \E T \in TriMaps(ug, dnrs, Q) :
          last' = [op |-> "predict", Q |-> Q, T |-> T,
                   out |-> FusedPredict(Fusion, ug, dnrs, Q, T)]
    /\ UNCHANGED <<par, df, cls, weights, dweights, nneigh, how, fitted, fitX, fitY,
                   yndim, fitW, ug, dnrs, serrkn, fitargs>>

-----------------------------------------------------------------------------
(* The Grouped regressor: construction, fit, predict *)

\* a Grouped or Fused fit gets one row more than a Base fit, so that two
\* groups can hold two rows each
GroupedRows == NTrain + 1

\* y as one column (ndim 1) or as two columns (ndim 2), distinct by row
TargetY(n, ndim) ==
    IF ndim = 1 THEN [i \in 1..n |-> <<I(i)>>]
    ELSE [i \in 1..n |-> <<I(i), I((i * i) % 3)>>]

\* sample_weight: None, all zero, or differing by row
FewSampleWeights(n) ==
    {NoneArr, Arr([i \in 1..n |-> Zero]), Arr([i \in 1..n |-> I(i % 3)])}

\* groups: one group, the first half against the second, or alternating
GroupVectors(n) ==
    {[i \in 1..n |-> "a"],
     [i \in 1..n |-> IF 2 * i <= n THEN "a" ELSE "b"],
     [i \in 1..n |-> IF i % 2 = 1 THEN "a" ELSE "b"]}

InitGrouped ==
    \E w \in {WUniform, WDistance, WDict} :
    \E dw \in {DWNone, DWOnly} :
    \E k \in 1..MaxK :
       Constructed("Grouped", w, dw, k, "unset")

\* fit overwrites all it stores and predict stores nothing: the regressor is
\* fit once and queried once
NextGrouped ==
    \/ /\ ~fitted
       /\ \E X \in TrainX(GroupedRows) : \E ndim \in {1, 2} :
          \E sw \in FewSampleWeights(GroupedRows) :
          \E groups \in GroupVectors(GroupedRows) :
             GroupedFit(X, TargetY(GroupedRows, ndim), ndim, sw, groups)
    \/ /\ last = NoCall
       /\ PredictGrouped

SpecGrouped == InitGrouped /\ [][NextGrouped]_vars

-----------------------------------------------------------------------------
(* The Fused regressor: construction, fit, predict *)

InitFused ==
    \E w \in {WUniform, WDistance} :
    \E dw \in {DWNone, DWOnly} :
    \E k \in 1..(MaxK - 1) :
       Constructed("Fused", w, dw, k, "unset")

\* fit overwrites all it stores and predict stores nothing: the regressor is
\* fit once and queried once
NextFused ==
    \/ /\ ~fitted
       /\ \E X \in TrainX(GroupedRows) : \E ndim \in {1, 2} :
          \E sw \in FewSampleWeights(GroupedRows) :
          \E groups \in GroupVectors(GroupedRows) :
             GroupedFit(X, TargetY(GroupedRows, ndim), ndim, sw, groups)
    \/ /\ last = NoCall
       /\ PredictFused

SpecFused == InitFused /\ [][NextFused]_vars

-----------------------------------------------------------------------------
(* The bias-correcting Grouped regressor: construction, fit, set_how, predict *)

\* _BCRegressor._needs: what predict computes under each how
Needs ==
    [obs |-> {"obs_dnr"},
     abc |-> {"obs_dnr", "mod_dnr", "mod_abc"},
     mbc |-> {"obs_dnr", "mod_dnr", "mod_mbc"},
     ambc |-> {"obs_dnr", "mod_dnr", "mod_mbc", "mod_abc", "mod_ambc"},
     individual |-> {"obs_dnr", "mod_dnr", "mod_mbc", "mod_abc", "mod_ambc"},
     best |-> {"mod_dnr", "obs_dnr", "mod_abc", "mod_mbc", "mod_ambc",
               "w_obs_dnr", "w_mod_abc", "w_mod_mbc", "w_mod_ambc", "mod_bbc"},
     debug |-> {"mod_dnr", "obs_dnr", "mod_abc", "mod_mbc", "mod_ambc",
                "w_obs_dnr", "w_mod_abc", "w_mod_mbc", "w_mod_ambc", "mod_bbc"}]

\* _BCRegressor._returns: what predict returns under each how, in order
Returns ==
    [obs |-> <<"obs_dnr">>,
     abc |-> <<"mod_abc">>,
     mbc |-> <<"mod_mbc">>,
     ambc |-> <<"mod_ambc">>,
     individual |-> <<"obs_dnr", "mod_abc", "mod_mbc", "mod_ambc">>,
     best |-> <<"mod_bbc">>,
     debug |-> <<"obs_dnr", "mod_abc", "mod_mbc", "mod_ambc", "w_obs_dnr",
                 "w_mod_mbc", "w_mod_abc", "w_mod_ambc", "mod_bbc">>]

\* the values given to how: the seven modes and the 'all' of the docstring
Hows == DOMAIN Needs \cup {"all"}

\* n_splits of the KFold in fit
NSplits == 5

\* np.mean([abc, mbc], axis=0)
Mean2(a, b) == FDiv(FAdd(a, b), I(2))

\* an ambc that is the mean whatever the sign of abc
AmbcMeanOnly(abc, mbc) == Mean2(abc, mbc)

\* ambc = np.mean([abc, mbc], axis=0); ambc[:] = np.where(abc < 0, mbc, ambc)
Ambc(abc, mbc) == IF FLess(abc, Zero) THEN mbc ELSE Mean2(abc, mbc)

\* the store of a predict that computed nothing
NoStore == [obs_dnr |-> <<>>, mod_dnr |-> <<>>, mod_abc |-> <<>>,
            mod_mbc |-> <<>>, mod_ambc |-> <<>>, w |-> <<>>, mod_bbc |-> <<>>]

\* np.squeeze: the shape without its axes of length one
Squeeze(shape) == SelectSeq(shape, LAMBDA n : n # 1)

\* predict of the GroupedDelaunayNeighborsRegressor that the BC Grouped
\* regressor inherits from the package's _core module: the Grouped predict
CorePredict(w, u, ds, Q, T) == GroupedPredict(w, u, ds, Q, T)

\* fit of the same: the Grouped fit, how being no parameter of the per-group
\* regressors
CoreFit(X, y, ndim, sw, groups) == GroupedFitBody(X, y, ndim, sw, groups)

\* serr = self._serrkn.predict(_X) where predict needs mod_bbc: skn is
\* self._serrkn, a Grouped regressor with the parameters of self. The result
\* is [has, err, rows]
SerrPredict(h, w, skn, Q, T2) ==
    IF "mod_bbc" \notin Needs[h] \/ ~skn.set
    THEN [has |-> skn.set, err |-> "", rows |-> <<>>]
    ELSE Once(CorePredict(w, skn.ug, skn.dnrs, Q, T2),
              LAMBDA p : [has |-> TRUE, err |-> p.err, rows |-> p.rows])

\* _BCRegressor.predict after super().predict: y is the result of the Grouped
\* predict on the coordinates, raw[r] the last column of row r of X, se what
\* SerrPredict gives. The result is [err, store, rows, shape]; store holds
\* the arrays predict computed, <<>> for those it did not. The blend mod_bbc
\* and the columns of w are 1-D, so the concatenation of 'debug' raises
BCCombine(h, y, raw, se) ==
    LET nq == Len(raw)
        needs == Needs[h]
        obs_dnr == Eval([r \in 1..nq |-> Tail(y.rows[r])])
        mod_dnr == Eval([r \in 1..nq |-> <<Head(y.rows[r])>>])
        m == Len(obs_dnr[1])
        abc == Eval([r \in 1..nq |-> Eval([j \in 1..m |->
                  FSub(FAdd(raw[r], obs_dnr[r][j]), mod_dnr[r][1])])])
        mbc == Eval([r \in 1..nq |-> Eval([j \in 1..m |->
                  FDiv(FMul(raw[r], obs_dnr[r][j]), mod_dnr[r][1])])])
        ambc == Eval([r \in 1..nq |-> Eval([j \in 1..m |->
                  Ambc(abc[r][j], mbc[r][j])])])
        indiv == Eval([r \in 1..nq |-> obs_dnr[r] \o abc[r] \o mbc[r] \o ambc[r]])
        w == Eval([r \in 1..nq |->
                Eval([c \in 1..Len(se.rows[r]) |-> FRecip(se.rows[r][c])])])
        bbc == Eval([r \in 1..nq |->
                  <<FDiv(SumSeq(MulSeq(indiv[r], w[r])), SumSeq(w[r]))>>])
        blend == "mod_bbc" \in needs
        store == [obs_dnr |-> obs_dnr, mod_dnr |-> mod_dnr,
                  mod_abc |-> IF "mod_abc" \in needs THEN abc ELSE <<>>,
                  mod_mbc |-> IF "mod_mbc" \in needs THEN mbc ELSE <<>>,
                  mod_ambc |-> IF "mod_ambc" \in needs THEN ambc ELSE <<>>,
                  w |-> IF blend THEN w ELSE <<>>,
                  mod_bbc |-> IF blend THEN bbc ELSE <<>>]
        returns == Returns[h]
        out == Eval([r \in 1..nq |->
                  Flatten(Eval([i \in 1..Len(returns) |-> store[returns[i]][r]]))])
        none == [err |-> "", store |-> NoStore, rows |-> <<>>, shape |-> <<>>]
    IN  IF y.err # "" THEN [none EXCEPT !.err = y.err]
        ELSE IF blend /\ ~se.has THEN [none EXCEPT !.err = "AttributeError"]
        ELSE IF blend /\ se.err # "" THEN [none EXCEPT !.err = se.err]
        ELSE IF blend /\ Len(se.rows[1]) # 4 * m
        THEN [none EXCEPT !.err = "ValueError"]
        ELSE IF blend /\ Len(returns) > 1
        THEN [none EXCEPT !.err = "ValueError"]
        ELSE IF blend
        THEN [none EXCEPT !.store = store, !.rows = out,
                          !.shape = Squeeze(<<nq>>)]
        ELSE [none EXCEPT !.store = store, !.rows = out,
                          !.shape = Squeeze(<<nq, Len(returns) * m>>)]

\* _BCRegressor.predict(X) of the BC Grouped regressor: h is self.how, skn
\* self._serrkn, T2 what the triangulations give in self._serrkn
BCPredict(h, w, u, ds, skn, Q, raw, T, T2) ==
    IF h \notin DOMAIN Needs
    THEN [err |-> "AssertionError", store |-> NoStore, rows |-> <<>>,
          shape |-> <<>>]
    ELSE Once(CorePredict(w, u, ds, Q, T), LAMBDA y :
         Once(SerrPredict(h, w, skn, Q, T2), LAMBDA se :
              BCCombine(h, y, raw, se)))

\* the test rows of the folds of KFold(n_splits=5, shuffle=True,
\* random_state=42) on ten rows: the shuffled rows 8 1 5 0 7 2 9 4 3 6 taken
\* two by two (rows counted from 1 here)
Folds == <<{2, 9}, {1, 6}, {3, 8}, {5, 10}, {4, 7}>>

RECURSIVE Ascending(_)
\* the elements of a set of numbers in ascending order
Ascending(S) ==
    IF S = {} THEN <<>>
    ELSE LET lo == CHOOSE x \in S : \A z \in S : x <= z
         IN  <<lo>> \o Ascending(S \ {lo})

\* seq[idx]
Pick(seq, idx) == [i \in 1..Len(idx) |-> seq[idx[i]]]

FoldTest(f) == Ascending(Folds[f])
FoldTrain(f, n) == Ascending((1..n) \ Folds[f])

\* the regressor cross_val_predict fits for fold f: a clone of self under how
\* 'individual', fit on the training rows of X, Y2 = [initial estimate, y],
\* sample_weight and groups. The result is [short, ug, dnrs]; short when a
\* group is left with fewer rows than n_neighbors
FoldFit(w, dw, k, X, Y2, sw, groups, f) ==
    LET tr == FoldTrain(f, Len(X))
        gtr == Pick(groups, tr)
    IN  [short |-> \E g \in {gtr[i] : i \in 1..Len(gtr)} :
                       Len(Sel(gtr, gtr, g)) < k,
         ug |-> Unique(gtr),
         dnrs |-> FitDnrs(w, dw, k, Pick(X, tr), Pick(Y2, tr), 2,
                          IF sw.none THEN NoneArr ELSE Arr(Pick(sw.v, tr)), gtr)]

\* what the triangulations can give when fold f predicts its test rows
FoldTris(w, dw, k, X, Y2, sw, groups, f) ==
    LET fit == FoldFit(w, dw, k, X, Y2, sw, groups, f)
    IN  IF fit.short THEN {<<>>}
        ELSE TriMaps(fit.ug, fit.dnrs, Pick(X, FoldTest(f)))

\* the same for the five folds
CVTris(w, dw, k, X, Y2, sw, groups) ==
    {<<t1, t2, t3, t4, t5>> :
        t1 \in FoldTris(w, dw, k, X, Y2, sw, groups, 1),
        t2 \in FoldTris(w, dw, k, X, Y2, sw, groups, 2),
        t3 \in FoldTris(w, dw, k, X, Y2, sw, groups, 3),
        t4 \in FoldTris(w, dw, k, X, Y2, sw, groups, 4),
        t5 \in FoldTris(w, dw, k, X, Y2, sw, groups, 5)}

\* the prediction of fold f for its test rows: kneighbors raises ValueError
\* for a group with fewer rows than n_neighbors
FoldPredict(w, dw, k, X, Y2, sw, groups, f, T) ==
    LET fit == FoldFit(w, dw, k, X, Y2, sw, groups, f)
        te == FoldTest(f)
    IN  IF fit.short
        THEN [err |-> "ValueError", store |-> NoStore, rows |-> <<>>,
              shape |-> <<>>]
        ELSE BCPredict("individual", w, fit.ug, fit.dnrs, NoSerrkn,
                       Pick(X, te), [i \in 1..Len(te) |-> Y2[te[i]][1]], T, T)

\* cross_val_predict(self, X, y, params, cv=kf) on ten rows: every row gets
\* the prediction of the fold that tests it. The result is [err, rows]
CrossValPredict(w, dw, k, X, Y2, sw, groups, TT) ==
    LET res == Eval([f \in 1..NSplits |->
                   FoldPredict(w, dw, k, X, Y2, sw, groups, f, TT[f])])
        bad == {f \in 1..NSplits : res[f].err # ""}
        fold(i) == CHOOSE f \in 1..NSplits : i \in Folds[f]
        pos(i) == CHOOSE j \in 1..Len(FoldTest(fold(i))) : FoldTest(fold(i))[j] = i
    IN  IF bad # {}
        THEN [err |-> res[CHOOSE f \in bad : \A z \in bad : f <= z].err,
              rows |-> <<>>]
        ELSE [err |-> "",
              rows |-> Eval([i \in 1..Len(X) |-> res[fold(i)].rows[pos(i)]])]

\* squared errors with the columns of obs_dnr and abc exchanged
SquaredErrorsSwapped(ycv, y) ==
    [i \in 1..Len(y) |->
        [c \in 1..Len(ycv[i]) |->
            LET q == ycv[i][IF c = 1 THEN 2 ELSE IF c = 2 THEN 1 ELSE c]
            IN  FMul(FSub(q, y[i][1]), FSub(q, y[i][1]))]]

\* serr = (_ycv - y)**2 for y of one column
SquaredErrors(ycv, y) ==
    Eval([i \in 1..Len(y) |-> Eval([c \in 1..Len(ycv[i]) |->
        FMul(FSub(ycv[i][c], y[i][1]), FSub(ycv[i][c], y[i][1]))])])

\* _BCRegressor.fit(X, y, ...) raises e after set_how(h): nothing else is
\* stored
BCFitRaises(h, e, X, y) ==
    /\ how' = h
    /\ last' = FitRaised(e, X, y)
    /\ UNCHANGED <<par, df, cls, weights, dweights, nneigh, fitted, fitX, fitY, yndim,
                   fitW, ug, dnrs, serrkn, fitargs>>

\* _BCRegressor.fit(X, y, sample_weight, groups) of the BC Grouped regressor,
\* X3[i] = <<coordinates, initial estimate>>, every group of at least
\* n_neighbors rows, and y of fewer than NSplits rows or of twice NSplits rows
\* where the cross-validation splits it. Under how
\* 'best' or 'all' set_how('individual') comes first, then the
\* cross-validation, the squared errors, the fit of self._serrkn on them and
\* set_how back; whatever raises on the way leaves how as 'individual'. Then
\* the Grouped fit gets the coordinates and the columns [initial estimate, y]
BCFit(X3, y, sw, groups) ==
    LET n == Len(y)
        X == [i \in 1..Len(X3) |-> X3[i][1]]
        Y2 == [i \in 1..n |->
                 <<(IF Len(X3) = 1 THEN X3[1][2] ELSE X3[i][2])>> \o y[i]]
    IN  /\ cls = "BCGrouped"
        /\ n > 0
        /\ how \in {"best", "all"} /\ Len(X3) = n => n < NSplits \/ n = 2 * NSplits
        /\ ~MaskMismatch(X, y, sw, groups) =>
              \A g \in Groups : Len(Sel(X, groups, g)) \in {0} \cup (nneigh..n)
        /\ IF how \in {"best", "all"}
           THEN IF Len(X3) # n \/ n < NSplits
                THEN BCFitRaises("individual", "ValueError", X3, y)
                ELSE IF MaskMismatch(X, y, sw, groups)
                THEN BCFitRaises("individual", "IndexError", X3, y)
                ELSE \E TT \in CVTris(weights, dweights, nneigh, X, Y2, sw, groups) :
                     LET cv == CrossValPredict(weights, dweights, nneigh, X, Y2,
                                               sw, groups, TT)
                     IN  IF cv.err # ""
                         THEN BCFitRaises("individual", cv.err, X3, y)
                         ELSE IF Len(y[1]) # 1
                         THEN BCFitRaises("individual", "ValueError", X3, y)
                         ELSE /\ serrkn' =
                                   [set |-> TRUE, ug |-> Unique(groups),
                                    dnrs |-> FitDnrs(weights, dweights, nneigh, X,
                                                SquaredErrors(cv.rows, y), 2,
                                                sw, groups)]
                              /\ UNCHANGED how
                              /\ CoreFit(X, Y2, 2, sw, groups)
           ELSE IF Len(X3) # n /\ Len(X3) # 1
                THEN BCFitRaises(how, "ValueError", X3, y)
                ELSE /\ UNCHANGED <<how, serrkn>>
                     /\ CoreFit(X, Y2, 2, sw, groups)

\* _BCRegressor.set_how(how)
SetHow(h) ==
    /\ cls = "BCGrouped"
    /\ how' = h
    /\ UNCHANGED <<par, df, cls, weights, dweights, nneigh, fitted, fitX, fitY, yndim,
                   fitW, ug, dnrs, serrkn, fitargs, last>>

\* the initial estimates at the query rows
RawMods == {Zero, I(3)}

\* what the triangulations can give in self._serrkn for the query rows Q,
\* when they give T in self: the same for the same points (T itself where
\* predict does not consult self._serrkn)
SerrTris(Q, T) ==
    IF how \notin DOMAIN Needs \/ ~serrkn.set THEN {T}
    ELSE IF "mod_bbc" \notin Needs[how] THEN {T}
    ELSE {t \in TriMaps(serrkn.ug, serrkn.dnrs, Q) :
            \A g \in (DOMAIN t) \cap (DOMAIN T) :
                serrkn.dnrs[g].fit_X = dnrs[g].fit_X => t[g] = T[g]}

\* a predict that leaves how at 'individual', as the cross-validation of fit
\* does on its way
PredictBCSetsHow ==
    /\ cls = "BCGrouped"
    /\ fitted
    /\ \E Q \in Batches : \E raw \in [1..Len(Q) -> RawMods] :
       \E T \in TriMaps(ug, dnrs, Q) : \E T2 \in SerrTris(Q, T) :
          last' = [op |-> "predict", Q |-> Q, raw |-> raw, T |-> T, T2 |-> T2,
                   out |-> BCPredict(how, weights, ug, dnrs, serrkn, Q, raw,
                                     T, T2)]
    /\ how' = "individual"
    /\ UNCHANGED <<par, df, cls, weights, dweights, nneigh, fitted, fitX, fitY,
                   yndim, fitW, ug, dnrs, serrkn, fitargs>>

\* _BCRegressor.predict(X) of the BC Grouped regressor
PredictBC ==
    /\ cls = "BCGrouped"
    /\ fitted
    /\ \E Q \in Batches : \E raw \in [1..Len(Q) -> RawMods] :
       \E T \in TriMaps(ug, dnrs, Q) : \E T2 \in SerrTris(Q, T) :
          last' = [op |-> "predict", Q |-> Q, raw |-> raw, T |-> T, T2 |-> T2,
                   out |-> BCPredict(how, weights, ug, dnrs, serrkn, Q, raw,
                                     T, T2)]
    /\ UNCHANGED <<par, df, cls, weights, dweights, nneigh, how, fitted, fitX, fitY,
                   yndim, fitW, ug, dnrs, serrkn, fitargs>>

\* the training rows: coordinates with the initial estimates 0, 1, 2, ...
TrainX3(n) == {[i \in 1..n |-> <<X[i], I(i - 1)>>] : X \in TrainX(n)}

\* the observations, as one column or as two
Observed(n) ==
    {[i \in 1..n |-> <<I((i * i) % 3)>>],
     [i \in 1..n |-> <<I((i * i) % 3), I(i)>>]}

InitBC ==
    \E dw \in {DWNone, DWOnly} : \E k \in 1..(MaxK - 1) : \E h \in Hows :
       Constructed("BCGrouped", WDistance, dw, k, h)

\* fit overwrites all it stores and predict stores nothing: the regressor is
\* fit until a fit succeeds and queried once; how is set between the calls
NextBC ==
    \/ /\ ~fitted
       /\ \E X3 \in TrainX3(NTrain) : \E y \in Observed(NTrain) :
          \E sw \in {NoneArr, Arr([i \in 1..NTrain |-> I(i % 3)])} :
          \E groups \in GroupVectors(NTrain) :
             BCFit(X3, y, sw, groups)
    \/ /\ last = NoCall
       /\ \E h \in Hows : SetHow(h)
    \/ /\ last = NoCall
       /\ PredictBC

SpecBC == InitBC /\ [][NextBC]_vars

-----------------------------------------------------------------------------
(* The life of a regressor: any sequence of fit, set_how and predict *)

\* n training coordinates going round the grid points
LifeX(n) == [i \in 1..n |-> <<(i - 1) % 2, ((i - 1) \div 2) % 2>>]

\* two targets of n rows and one column
LifeYs(n) == {[i \in 1..n |-> <<I(1 + (i % 3))>>],
              [i \in 1..n |-> <<I(1 + ((i * i) % 5))>>]}

\* a target that has one row less than X has
ShortYs(n) == {[i \in 1..(n - 1) |-> <<I(1 + (i % 3))>>]}

\* one group, or two alternating
LifeGroups(n) == {[i \in 1..n |-> "a"],
                  [i \in 1..n |-> IF i % 2 = 1 THEN "a" ELSE "b"]}

\* the rows of a BC fit: twice NSplits rows with the initial estimates
\* 2, 1, 1, 2, ..., or the first of these rows alone
LifeX3 == {[i \in 1..(2 * NSplits) |->
               <<LifeX(2 * NSplits)[i], I(IF i % 3 = 1 THEN 2 ELSE 1)>>],
           << <<LifeX(1)[1], I(2)>> >>}

\* fit of a Base regressor, with y of as many rows as X or of one less
LifeFitBase ==
    \E y \in LifeYs(NTrain) \cup ShortYs(NTrain) :
       BaseFit(LifeX(NTrain), y, 2, NoneArr)

\* fit of a Grouped or Fused regressor, groups having the rows of X
LifeFitGrouped ==
    \E y \in LifeYs(GroupedRows) \cup ShortYs(GroupedRows) :
    \E groups \in LifeGroups(GroupedRows) :
       GroupedFit(LifeX(GroupedRows), y, 2, NoneArr, groups)

\* fit of a BC Grouped regressor, all rows of y in one group
LifeFitBC ==
    \E X3 \in LifeX3 :
    \E y \in LifeYs(2 * NSplits) \cup ShortYs(2 * NSplits) :
       BCFit(X3, y, NoneArr, [i \in 1..Len(y) |-> "a"])

\* the values how is given: a mode of one quantity, the two that fit
\* cross-validates, and one that names no mode
LifeHows == {"abc", "best", "all", "bogus"}

\* the regressors are constructed with known and unknown strings; a BC
\* regressor, whose fit cross-validates, with one neighbour and known ones
InitLife ==
    \E c \in {"Base", "Grouped", "Fused", "BCGrouped"} :
    \E w \in {WUniform, WUnknown} : \E dw \in {DWNone, DWUnknown} :
    \E k \in 1..(MaxK - 1) :
    \E h \in IF c = "BCGrouped" THEN LifeHows ELSE {"unset"} :
       /\ c = "BCGrouped" => k = 1 /\ w = WUniform /\ dw = DWNone
       /\ Constructed(c, w, dw, k, h)

NextLife ==
    \/ LifeFitBase
    \/ LifeFitGrouped
    \/ LifeFitBC
    \/ \E h \in LifeHows : SetHow(h)
    \/ PredictBase
    \/ PredictGrouped
    \/ PredictFused
    \/ PredictBC

SpecLife == InitLife /\ [][NextLife]_vars

\* a BC Grouped regressor is constructed with a mode and fit and queried under
\* it: set_how is not called
NextModes ==
    \/ LifeFitBC
    \/ PredictBC

InitModes ==
    \E h \in Hows : Constructed("BCGrouped", WUniform, DWNone, 1, h)

SpecModes == InitModes /\ [][NextModes]_vars

-----------------------------------------------------------------------------
(* distweight: the distance-weighted ensemble of interpolated sources *)

\* number of sources (distkeys and valkeys)
NSrc == 2

\* the weight that stands for a zero distance. The program takes 1e20; the
\* model takes a number that as well exceeds every weight of a non-zero
\* distance it meets
Huge == 10000

\* d ** power for the powers -1 and -2, as numpy computes it
FPow(d, power) == IF power = -1 THEN FRecip(d) ELSE FRecip(FMul(d, d))

RECURSIVE Pow2(_)
\* 2 ** t for an integer t
Pow2(t) == IF t = 0 THEN One
           ELSE IF t > 0 THEN FMul(I(2), Pow2(t - 1))
           ELSE FDiv(Pow2(t + 1), I(2))

\* L / (1 + np.exp(k * (mindist - x0))) for L = 1 and the k with exp(k) = 2,
\* mindist a whole number, inf or nan
Logistic(mindist, x0) ==
    IF IsNaN(mindist) THEN NaN
    ELSE IF IsInf(mindist) THEN Zero
    ELSE FDiv(One, FAdd(One, Pow2(mindist[1] - x0)))

RECURSIVE MinSkipNa(_)
\* Series.min and DataFrame.min(axis=1): the smallest element that is no nan,
\* nan when all are
MinSkipNa(s) ==
    IF s = <<>> THEN NaN
    ELSE LET rest == MinSkipNa(Tail(s))
         IN  IF IsNaN(Head(s)) THEN rest
             ELSE IF IsNaN(rest) \/ FLess(Head(s), rest) THEN Head(s)
             ELSE rest

\* DataFrame.sum(axis=1): the sum of the elements that are no nan
SumSkipNa(s) == SumSeq(SelectSeq(s, LAMBDA x : ~IsNaN(x)))

\* x.fillna(v)
FillNa(x, v) == IF IsNaN(x) THEN v ELSE x

\* mindist = dists.min(axis=1)
MinDistOf(row) == MinSkipNa(row.dist)

\* a normalisation that leaves the raw weights as they are
NwgtsRaw(wgts, totwgt) == wgts

\* nwgts = wgts.divide(totwgt, axis=0).fillna(0)
Nwgts(wgts, totwgt) ==
    [i \in 1..NSrc |-> FillNa(FDiv(wgts[i], totwgt), Zero)]

\* a fused value that takes the background as the blend does the sources
FusedAllBlend(outw, modw, row) ==
    SumSkipNa([i \in 1..NSrc |-> FMul(outw[i], row.val[i])] \o <<row.mod>>)

\* y = (outdf[valkeys + [modkey]] * df[valkeys + [modkey]]).sum(axis=1)
\*         .where(~df[modkey].isna())
FusedOf(outw, modw, row) ==
    IF IsNaN(row.mod) THEN NaN
    ELSE SumSkipNa([i \in 1..NSrc |-> FMul(outw[i], row.val[i])]
                   \o <<FMul(modw, row.mod)>>)

\* distweight for one row of df: row.dist[i] and row.val[i] are the distance
\* and the value of source i, row.mod the background value; scale[i] is the
\* scale_kw of source i (1 without one). The result holds the intermediate
\* columns and those of outdf (wgt, modwgt, y)
DistweightRow(row, power, x0, scale) ==
    LET masked == [i \in 1..NSrc |->
                     FillNa(IF IsNaN(row.val[i]) THEN NaN
                            ELSE FPow(row.dist[i], power), Zero)]
        finite == [i \in 1..NSrc |->
                     FillNa(IF masked[i] = Inf THEN NaN ELSE masked[i], I(Huge))]
        wgts == [i \in 1..NSrc |-> FMul(finite[i], scale[i])]
        mindist == MinDistOf(row)
        totwgt == SumSkipNa(wgts)
        nwgts == Nwgts(wgts, totwgt)
        logistic == Logistic(mindist, x0)
        bc_wgt == FillNa(IF FLess(Zero, totwgt) THEN logistic ELSE NaN, Zero)
        outw == [i \in 1..NSrc |-> FMul(nwgts[i], bc_wgt)]
        modw == FSub(One, bc_wgt)
    IN  [wgts |-> wgts, mindist |-> mindist, totwgt |-> totwgt,
         nwgts |-> nwgts, bc_wgt |-> bc_wgt,
         wgt |-> outw, modwgt |-> modw, y |-> FusedOf(outw, modw, row)]

\* the columns of outdf
OutColumns(res) == [wgt |-> res.wgt, modwgt |-> res.modwgt, y |-> res.y]

\* distweight(df, distkeys, valkeys, power=power, add=add, k=ln 2, x0=x0,
\* **scale_kw): every row on its own; add=True writes the columns of outdf
\* into df
Distweight(power, x0, scale, add) ==
    LET res == [r \in 1..Len(df.rows) |-> DistweightRow(df.rows[r], power, x0, scale)]
    IN  /\ cls = "none"
        /\ df.rows # <<>>
        /\ last' = [op |-> "distweight", rows |-> df.rows, power |-> power,
                    x0 |-> x0, scale |-> scale, add |-> add, out |-> res]
        /\ df' = IF add
                 THEN [df EXCEPT !.out = [r \in 1..Len(res) |-> OutColumns(res[r])]]
                 ELSE df
        /\ UNCHANGED <<par, cls, weights, dweights, nneigh, how, fitted, fitX, fitY,
                       yndim, fitW, ug, dnrs, serrkn, fitargs>>

\* no regressor is at hand
NoRegressor ==
    /\ cls = "none"
    /\ weights = WUniform
    /\ dweights = DWNone
    /\ nneigh = 0
    /\ how = "unset"
    /\ fitted = FALSE
    /\ fitX = <<>>
    /\ fitY = <<>>
    /\ yndim = 0
    /\ fitW = NoneArr
    /\ ug = <<>>
    /\ dnrs = <<>>
    /\ serrkn = NoSerrkn
    /\ fitargs = NoFit
    /\ last = NoCall

\* the distances of a row: zero, whole, infinite or missing
Distances == {Zero, One, I(2), Inf, NaN}

\* the values of the sources: present or missing
SourceValues == {One, I(3), NaN}

\* the rows of df
DistRows == [dist : [1..NSrc -> Distances], val : [1..NSrc -> SourceValues],
             mod : {I(2), NaN}]

\* a second row, with both sources and the background present
PlainRow == [dist |-> [i \in 1..NSrc |-> I(i)],
             val |-> [i \in 1..NSrc |-> I(2 * i - 1)], mod |-> I(2)]

\* the scale_kw: none, or one for the first source
Scales == {[i \in 1..NSrc |-> IF i = 1 THEN s ELSE One] : s \in {Zero, One, I(2)}}

\* df has one row, or that row and a plain one after it
InitDist ==
    /\ NoRegressor
    /\ par = NoPar
    /\ \E row \in DistRows :
          df \in {[rows |-> <<row>>, out |-> <<>>],
                  [rows |-> <<row, PlainRow>>, out |-> <<>>]}

\* distweight is called once on a table
NextDist ==
    /\ last = NoCall
    /\ \E power \in {-2, -1} : \E x0 \in {1} : \E scale \in Scales :
       \E add \in BOOLEAN :
          Distweight(power, x0, scale, add)

SpecDist == InitDist /\ [][NextDist]_vars

-----------------------------------------------------------------------------
(* _isdelaunay with n_jobs: the query rows are sliced over workers *)

\* largest number of query rows
MaxRows == 3
\* largest n_jobs
MaxJobs == 3

\* a split that leaves the remainder of n / n_jobs out
NsEven(n, n_jobs) == [i \in 1..n_jobs |-> n \div n_jobs]

\* ns = [n // n_jobs] * n_jobs; ns[-1] += (n - sum(ns))
Ns(n, n_jobs) ==
    [i \in 1..n_jobs |->
        IF i = n_jobs THEN (n \div n_jobs) + (n - n_jobs * (n \div n_jobs))
        ELSE n \div n_jobs]

RECURSIVE CumSum(_)
\* np.cumsum(a)
CumSum(a) ==
    IF a = <<>> THEN <<>>
    ELSE LET front == CumSum(SubSeq(a, 1, Len(a) - 1))
         IN  Append(front, (IF front = <<>> THEN 0 ELSE front[Len(front)])
                           + a[Len(a)])

\* se = np.cumsum([0] + ns)
SliceEnds(n, n_jobs) == CumSum(<<0>> \o Ns(n, n_jobs))

\* _isdelaunay(tgtx, X, n_jobs=None) for rows whose triangulations give
\* tris: Delaunay raises QhullError for a row (the set {0}) and so does the
\* call; else one mask per row. No row: an array of no rows
IsDelaunaySeq(k, tris) ==
    IF \E r \in 1..Len(tris) : QhullError(tris[r])
    THEN [err |-> "QhullError", rows |-> <<>>]
    ELSE [err |-> "", rows |-> [r \in 1..Len(tris) |-> IsDelaunayRow(k, tris[r])]]

\* the task of slice i has not returned
Pending == [err |-> "pending", rows |-> <<>>]

\* _isdelaunay(tgtx, X, n_jobs) up to the dispatch of the tasks: task i gets
\* the rows se[i] <= row < se[i + 1], counted from 0
IsDelaunayDispatch(k, tris, n_jobs) ==
    /\ cls = "none"
    /\ ~par.on
    /\ par' = [on |-> TRUE, k |-> k, tris |-> tris, n_jobs |-> n_jobs,
               se |-> SliceEnds(Len(tris), n_jobs),
               done |-> [i \in 1..n_jobs |-> Pending], order |-> <<>>]
    /\ last' = NoCall
    /\ UNCHANGED <<df, cls, weights, dweights, nneigh, how, fitted, fitX, fitY,
                   yndim, fitW, ug, dnrs, serrkn, fitargs>>

\* a worker finishes task i: _isdelaunay(tgtx[s:e], X[s:e], n_jobs=None)
WorkerReturns(i) ==
    /\ par.on
    /\ par.done[i] = Pending
    /\ par' = [par EXCEPT
                 !.done[i] = IsDelaunaySeq(par.k,
                                SubSeq(par.tris, par.se[i] + 1, par.se[i + 1])),
                 !.order = Append(@, i)]
    /\ UNCHANGED <<df, cls, weights, dweights, nneigh, how, fitted, fitX, fitY,
                   yndim, fitW, ug, dnrs, serrkn, fitargs, last>>

RECURSIVE Concatenate(_)
\* np.ma.concatenate(processed_list, axis=0)
Concatenate(parts) ==
    IF parts = <<>> THEN <<>> ELSE Head(parts).rows \o Concatenate(Tail(parts))

\* all tasks have returned: Parallel hands the results over in the order of
\* the tasks, or raises what a task raised; the results are concatenated
IsDelaunayGather ==
    /\ par.on
    /\ \A i \in 1..par.n_jobs : par.done[i] # Pending
    /\ last' = [op |-> "_isdelaunay", k |-> par.k, tris |-> par.tris,
                n_jobs |-> par.n_jobs, se |-> par.se, order |-> par.order,
                out |-> IF \E i \in 1..par.n_jobs : par.done[i].err # ""
                        THEN [err |-> "QhullError", rows |-> <<>>]
                        ELSE [err |-> "", rows |-> Concatenate(par.done)]]
    /\ par' = NoPar
    /\ UNCHANGED <<df, cls, weights, dweights, nneigh, how, fitted, fitX, fitY,
                   yndim, fitW, ug, dnrs, serrkn, fitargs>>

\* what the triangulation of a query row gives among its MaxK neighbours:
\* no adjacent vertex, two of them, or QhullError
RowTris == {{}, {1, 2}, {2, 3}, {0}}

InitJobs ==
    /\ NoRegressor
    /\ df = NoTable
    /\ par = NoPar

NextJobs ==
    \/ \E n \in 0..MaxRows : \E tris \in [1..n -> RowTris] :
       \E n_jobs \in 1..MaxJobs :
          IsDelaunayDispatch(MaxK, tris, n_jobs)
    \/ \E i \in 1..MaxJobs : i \in DOMAIN par.done /\ WorkerReturns(i)
    \/ IsDelaunayGather

SpecJobs == InitJobs /\ [][NextJobs]_vars

-----------------------------------------------------------------------------
(* airfuse/points/_obs.py obs.pair and airfuse/utils/_driver.py fuse: which
   rows of the observation table are returned and handed to the regressor.
   A table is a sequence of rows; a row holds obs and the site coordinate x,
   and after pair also mod.  The model grid has the nodes 0..MaxCoord of one
   axis; a site at MaxCoord + 1 lies outside of it. *)

\* modvar.interp(x=cds.x, y=cds.y, method='linear') at a site on a grid node:
\* the node's value, and nan for a site outside the grid
Interp(modvar, x) == IF x \in DOMAIN modvar THEN modvar[x] ELSE NaN

\* the query strings a caller passes; None and '' are both false for `or`
Qstrs == {"None", "", "obs == obs and mod == mod", "obs > 0", "mod == mod",
          "x >= 0"}

\* qstr or 'obs == obs and mod == mod'
QstrOrDefault(qstr) ==
    IF qstr \in {"None", ""} THEN "obs == obs and mod == mod" ELSE qstr

\* the truth of a query string on one row, as df.query evaluates it
QueryRow(q, row) ==
    CASE q = "obs == obs and mod == mod" ->
             ~IsNaN(row.obs) /\ ~IsNaN(row.mod)
      [] q = "obs > 0" -> FLess(Zero, row.obs)
      [] q = "mod == mod" -> ~IsNaN(row.mod)
      [] q = "x >= 0" -> row.x >= 0

\* df.query(q)
Query(rows, q) == SelectSeq(rows, LAMBDA row : QueryRow(q, row))

\* obs.pair(date, modvar, qstr=qstr): the table of the date gets the column
\* mod, interpolated from modvar at the sites, and the rows that satisfy the
\* query string are returned
Pair(modvar, qstr) ==
    LET loaded == [i \in DOMAIN df.rows |->
                      [obs |-> df.rows[i].obs, x |-> df.rows[i].x]]
        paired == [i \in DOMAIN loaded |->
                      [obs |-> loaded[i].obs, x |-> loaded[i].x,
                       mod |-> Interp(modvar, loaded[i].x)]]
        out == Query(paired, QstrOrDefault(qstr))
    IN  /\ df' = [rows |-> paired, out |-> out]
        /\ last' = [op |-> "pair", qstr |-> qstr, out |-> out]
        /\ UNCHANGED <<par, cls, weights, dweights, nneigh, how, fitted, fitX,
                       fitY, yndim, fitW, ug, dnrs, serrkn, fitargs>>

\* tgtdf.loc[~tgtdf[modkey].isna()]
TargetRows(tgtdf) == SelectSeq(tgtdf, LAMBDA row : ~IsNaN(row.mod))

\* utils.fuse(tgtdf, fitdf, obdnr, cvsfx=cvsfx): the tables handed to
\* cross_val_predict, to obdnr.fit and to obdnr.predict.  What the regressor
\* obdnr computes from them is its own; the values it returns are left out.
Fuse(tgtdf, fitdf, cv) ==
    /\ last' = [op |-> "fuse",
                cv |-> IF cv THEN fitdf ELSE <<>>,
                fit |-> fitdf,
                tgt |-> TargetRows(tgtdf)]
    /\ UNCHANGED <<par, df, cls, weights, dweights, nneigh, how, fitted, fitX,
                   fitY, yndim, fitW, ug, dnrs, serrkn, fitargs>>

\* the table of a date has one or two sites, on a node of the grid or outside
\* of it, each with an observation that is measured or missing
InitPair ==
    /\ NoRegressor
    /\ par = NoPar
    /\ LET LoadedRows == [obs : {NaN, Zero, One}, x : 0..(MaxCoord + 1)]
       IN  \E r1 \in LoadedRows : \E r2 \in LoadedRows :
              df \in {[rows |-> <<r1>>, out |-> <<>>],
                      [rows |-> <<r1, r2>>, out |-> <<>>]}

\* a date is paired with a background model that has a value or nan in each
\* cell, and fuse is called with the paired rows or with the whole table as
\* fitdf
NextPair ==
    \/ \E modvar \in [0..MaxCoord -> {NaN, I(2)}] : \E qstr \in Qstrs :
          /\ last.op # "fuse"
          /\ Pair(modvar, qstr)
    \/ \E fitdf \in {df.out, df.rows} : \E cv \in BOOLEAN :
          /\ last.op = "pair"
          /\ Fuse(df.rows, fitdf, cv)

SpecPair == InitPair /\ [][NextPair]_vars

-----------------------------------------------------------------------------
(* airfuse/models.py applyfusion: the cross-validation distance and the
   leave-one-out of the rows of fitdf.  mod is an nna_methods.NNA: fit keeps
   the training points, nn(X, k) gives the k nearest of them by query row,
   nearest first, predict(X, loo=True) asks for one neighbour more and drops
   the first of each row, and cross_validate writes the fold of each row. *)

\* the rows of fitdf are sites on one line of the grid
FitPoints == {<<c, 0>> : c \in Coords}

\* mod.nn(q, k) of a mod fit on the rows train of X: the k nearest rows,
\* nearest first; rows at the same distance come in index order, ascending
\* or descending, whatever the query is
NN(X, train, q, k, rev) ==
    LET before(i, j) == \/ Dist(X[i], q) < Dist(X[j], q)
                        \/ /\ Dist(X[i], q) = Dist(X[j], q)
                           /\ IF rev THEN i > j ELSE i < j
        rank(i) == Cardinality({j \in train : before(j, i)})
    IN  [r \in 1..k |-> CHOOSE i \in train : rank(i) = r - 1]

\* the distances of nn: mod.nn(...)[0]
NNDist(X, ind, q) == [r \in 1..Len(ind) |-> Dist(X[ind[r]], q)]

\* a training set that keeps the rows of fold k
TrainAllRows(fold, k) == DOMAIN fold

\* fitdf.query('CV_..._fold != k'): the rows of the other folds
TrainOf(fold, k) == {i \in DOMAIN fold : fold[i] # k}

RECURSIVE CVDistLoop(_, _, _, _, _)
\* for k, testdf in fitdf.groupby(fold): mod is fit on the rows of the other
\* folds and CV_DIST of the rows of fold k is set; ks are the folds to come,
\* st.mod the rows mod is fit on and st.dist the column CV_DIST so far
CVDistLoop(X, fold, rev, ks, st) ==
    IF ks = <<>> THEN st
    ELSE LET k == Head(ks)
             train == TrainOf(fold, k)
             dist == [i \in DOMAIN X |->
                        IF fold[i] = k
                        THEN NNDist(X, NN(X, train, X[i], 1, rev), X[i])[1]
                        ELSE st.dist[i]]
         IN  CVDistLoop(X, fold, rev, Tail(ks), [mod |-> train, dist |-> dist])

\* the larger of two distances: mod.nn(X, k=2)[0].max(1)
Max2(d) == IF d[1] > d[2] THEN d[1] ELSE d[2]

\* applyfusion(mod, prefix, fitdf, cv=cv, loo=loo) for a mod of k neighbours:
\* fold is what cross_validate wrote for the last of the keys, -1 marks a
\* column that is not set
ApplyFusion(fold, k, rev, cv, loo) ==
    LET X == [i \in DOMAIN df.rows |-> df.rows[i].xy]
        n == Len(X)
        unset == [i \in 1..n |-> -1]
        cvst == IF cv
                THEN CVDistLoop(X, fold, rev,
                                Ascending({fold[i] : i \in 1..n}),
                                [mod |-> {}, dist |-> unset])
                ELSE [mod |-> {}, dist |-> unset]
        full == 1..n
        looidx == [i \in 1..n |-> Tail(NN(X, full, X[i], k + 1, rev))]
        loodist == [i \in 1..n |->
                      Max2(NNDist(X, NN(X, full, X[i], 2, rev), X[i]))]
    IN  /\ last' = [op |-> "applyfusion", cv |-> cv, loo |-> loo,
                    fold |-> IF cv THEN fold ELSE unset,
                    cvmod |-> cvst.mod, CV_DIST |-> cvst.dist,
                    mod |-> full,
                    looidx |-> IF loo THEN looidx ELSE <<>>,
                    LOO_DIST |-> IF loo THEN loodist ELSE <<>>]
        /\ UNCHANGED <<par, df, cls, weights, dweights, nneigh, how, fitted,
                       fitX, fitY, yndim, fitW, ug, dnrs, serrkn, fitargs>>

\* the folds KFold can give n rows: every row in one fold, at least two
\* folds, none of them empty
FoldColumns(n) ==
    {f \in [1..n -> 0..(n - 1)] :
        \E m \in 2..n : {f[i] : i \in 1..n} = 0..(m - 1)}

\* fitdf has two rows or more
InitFusionCV ==
    /\ NoRegressor
    /\ par = NoPar
    /\ \E n \in 2..NTrain : \E X \in [1..n -> FitPoints] :
          df = [rows |-> [i \in 1..n |-> [xy |-> X[i]]], out |-> <<>>]

NextFusionCV ==
    /\ last = NoCall
    /\ \E fold \in FoldColumns(Len(df.rows)) :
       \E k \in 1..(Len(df.rows) - 1) : \E rev \in BOOLEAN :
       \E cv \in BOOLEAN : \E loo \in BOOLEAN :
          ApplyFusion(fold, k, rev, cv, loo)

SpecFusionCV == InitFusionCV /\ [][NextFusionCV]_vars

-----------------------------------------------------------------------------
(* airfuse/utils/_driver.py biascorrect: the columns mbc, abc and bc of a
   table that holds mod and the interpolated modhat and obshat *)

\* one row of biascorrect: meanbc.where(abc > 0, mbc) keeps the mean where
\* abc > 0 and takes mbc elsewhere, nan included
BiascorrectRow(row) ==
    LET mbc == FDiv(row.mod, FDiv(row.modhat, row.obshat))
        abc == FSub(row.mod, FSub(row.modhat, row.obshat))
        meanbc == FDiv(FAdd(mbc, abc), I(2))
    IN  [mbc |-> mbc, abc |-> abc,
         bc |-> IF FLess(Zero, abc) THEN meanbc ELSE mbc]

\* biascorrect(df, suffix): the three columns are written to df
Biascorrect ==
    /\ df' = [df EXCEPT !.out = [i \in DOMAIN df.rows |->
                                    BiascorrectRow(df.rows[i])]]
    /\ last' = [op |-> "biascorrect"]
    /\ UNCHANGED <<par, cls, weights, dweights, nneigh, how, fitted, fitX,
                   fitY, yndim, fitW, ug, dnrs, serrkn, fitargs>>

\* a table of one or two rows of concentrations, some of them missing
InitBias ==
    /\ NoRegressor
    /\ par = NoPar
    /\ LET Rows == [mod : {NaN, Zero, One, I(2)},
                    modhat : {NaN, Zero, One, I(2)},
                    obshat : {NaN, Zero, One, I(2)}]
       IN  \E r1 \in Rows : \E r2 \in Rows :
              df \in {[rows |-> <<r1>>, out |-> <<>>],
                      [rows |-> <<r1, r2>>, out |-> <<>>]}

NextBias == last = NoCall /\ Biascorrect

SpecBias == InitBias /\ [][NextBias]_vars

-----------------------------------------------------------------------------
(* airfuse/layers/_naqfc.py naqfc.acquire: the forecast file of a date.
   Times are hours since a midnight.  A file is named by its source and, but
   for TGFTP, by the day of its cycle; cache and remote give the reference
   time of the file of a name, or -1 where there is none (for remote: where
   the download fails). *)

\* fdate.floor('1d')
Floor1d(t) == (t \div 24) * 24

\* tgtstart, from the hour of now
TgtStart(now) ==
    IF now % 24 < 11 THEN Floor1d(now) - 12
    ELSE IF now % 24 < 17 THEN Floor1d(now) + 6
    ELSE Floor1d(now) + 12

\* urlopts of the file date fdate: the start of the forecast and the name of
\* the file under inroot
UrlOpts(fdate, now) ==
    LET d00Z == Floor1d(fdate)
    IN  << [sdate |-> d00Z + 12, dest |-> <<"nomads12", d00Z>>],
           [sdate |-> d00Z + 12, dest |-> <<"aws12", d00Z>>],
           [sdate |-> d00Z + 6, dest |-> <<"nomads06", d00Z>>],
           [sdate |-> d00Z + 6, dest |-> <<"aws06", d00Z>>],
           [sdate |-> TgtStart(now), dest |-> <<"tgftp", 0>>] >>

\* a file that is absent from the cache
Absent(cache, dest) == dest \notin DOMAIN cache \/ cache[dest] < 0

RECURSIVE AcquireFrom(_, _, _, _)
\* the two loops of acquire over the candidates opts that are left: the
\* result is [err, path, reftime, cache], cache with the files downloaded
AcquireFrom(opts, date, cache, remote) ==
    IF opts = <<>>
    THEN [err |-> "IOError", path |-> <<>>, reftime |-> -1, cache |-> cache]
    ELSE LET o == Head(opts)
             inwindow == date > o.sdate /\ date < o.sdate + 72
             cached == ~Absent(cache, o.dest)
             fails == Absent(remote, o.dest)
             got == IF cached THEN cache
                    ELSE [d \in (DOMAIN cache) \cup {o.dest} |->
                             IF d = o.dest THEN remote[d] ELSE cache[d]]
         IN  IF ~inwindow \/ (~cached /\ fails)
             THEN AcquireFrom(Tail(opts), date, cache, remote)
             ELSE IF got[o.dest] < date
             THEN [err |-> "", path |-> o.dest, reftime |-> got[o.dest],
                   cache |-> got]
             ELSE AcquireFrom(Tail(opts), date, got, remote)

\* the candidates of acquire(date) in the order they are tried, for the
\* default fdates
AllOpts(date, now) ==
    UrlOpts(date, now) \o UrlOpts(date - 24, now) \o UrlOpts(date - 48, now)

\* naqfc.acquire(date)
Acquire ==
    LET r == AcquireFrom(AllOpts(df.date, df.now), df.date, df.cache, df.remote)
    IN  /\ df' = [df EXCEPT !.cache = r.cache]
        /\ last' = [op |-> "acquire", err |-> r.err, path |-> r.path,
                    reftime |-> r.reftime, before |-> df.cache]
        /\ UNCHANGED <<par, cls, weights, dweights, nneigh, how, fitted, fitX,
                       fitY, yndim, fitW, ug, dnrs, serrkn, fitargs>>

\* the date is the eleventh day at 05Z or at 13Z and now is the same day at
\* 12Z or 18Z, or the next day at 08Z.  NOMADS, AWS and TGFTP each serve
\* their files or fail; TGFTP serves the latest cycle.  The cache holds none,
\* one or two of the dated files, and a TGFTP file of the latest cycle or of
\* a cycle five days before, or none
InitAcquire ==
    /\ NoRegressor
    /\ par = NoPar
    /\ \E date \in {240 + 5, 240 + 13} : \E now \in {240 + 12, 240 + 18, 264 + 8} :
       \E up \in SUBSET {"nomads", "aws", "tgftp"} :
       \E kept \in SUBSET {<<"nomads12", 240>>, <<"aws06", 216>>} :
       \E old \in {-1, TgtStart(now), TgtStart(now) - 120} :
          LET dated == {<<src, d>> : src \in {"nomads12", "aws12", "nomads06",
                                             "aws06"}, d \in {192, 216, 240}}
              cycle(dest) == dest[2] + (IF dest[1] \in {"nomads12", "aws12"}
                                        THEN 12 ELSE 6)
              source(dest) == IF dest[1] \in {"nomads12", "nomads06"}
                              THEN "nomads" ELSE "aws"
              published(dest) == cycle(dest) < now
          IN  df = [date |-> date, now |-> now,
                    cache |-> [dest \in kept \cup {<<"tgftp", 0>>} |->
                                 IF dest[1] = "tgftp" THEN old ELSE cycle(dest)],
                    remote |-> [dest \in dated \cup {<<"tgftp", 0>>} |->
                                  IF dest[1] = "tgftp"
                                  THEN IF "tgftp" \in up THEN TgtStart(now) ELSE -1
                                  ELSE IF source(dest) \in up /\ published(dest)
                                       THEN cycle(dest) ELSE -1]]

NextAcquire == last = NoCall /\ Acquire

SpecAcquire == InitAcquire /\ [][NextAcquire]_vars

-----------------------------------------------------------------------------
(* airfuse/layers/_naqfc.py naqfc.get and airfuse/utils/_nowcast.py
   pmnowcast: the value of one grid cell.  df.rows holds the hours of the
   cell in the file up to the hour of the date, the last NHours of them. *)

NHours == 4

\* the cap of the layer: naqfc(spc, maxval=2)
MaxVal == 2

\* invar.where(invar.fillna(0) < self.maxval, self.maxval)
Cap(v) == IF FLess((IF IsNaN(v) THEN Zero ELSE v), I(MaxVal)) THEN v
          ELSE I(MaxVal)

RECURSIVE NanMax(_)
\* c.max(): nan when an element is nan
NanMax(c) ==
    IF Len(c) = 1 THEN c[1]
    ELSE LET m == NanMax(Tail(c))
         IN  IF IsNaN(c[1]) \/ IsNaN(m) THEN NaN
             ELSE IF FLess(m, c[1]) THEN c[1] ELSE m

\* c.min(): -(-c).max()
NanMin(c) == FNeg(NanMax([i \in DOMAIN c |-> FNeg(c[i])]))

RECURSIVE FPowN(_, _)
\* wf**n for n = 0, 1, ...: nan**0 is 1
FPowN(a, n) == IF n = 0 THEN One ELSE FMul(a, FPowN(a, n - 1))

\* pmnowcast(x, mdl=0)
PmNowcast(x) ==
    LET n == Len(x)
        last3 == {i \in 1..n : i > n - 3 /\ IsFinite(x[i])}
        c == [i \in 1..n |-> IF FLess(x[i], Zero) THEN Zero ELSE x[i]]
        cmax == NanMax(c)
        scale == FDiv(FSub(cmax, NanMin(c)), cmax)
        omt == FSub(One, scale)
        lo == IF IsNaN(omt) THEN NaN ELSE IF FLess(One, omt) THEN One ELSE omt
        wf == IF IsNaN(lo) THEN NaN
              ELSE IF FLess(lo, FDiv(One, I(2))) THEN FDiv(One, I(2)) ELSE lo
        w == [i \in 1..n |-> IF IsNaN(c[i]) THEN Zero ELSE FPowN(wf, n - i)]
    IN  IF Cardinality(last3) < 2 THEN NaN
        ELSE IF cmax = Zero THEN NaN
        ELSE FDiv(SumSeq(MulSeq(w, c)), SumSeq(w))

\* naqfc.get(date, nowcast=nowcast) at the cell: the capped hour of the date,
\* or the nowcast of the capped hours
NaqfcGet(nowcast) ==
    LET invar == [i \in DOMAIN df.rows |-> Cap(df.rows[i])]
    IN  /\ last' = [op |-> "get", nowcast |-> nowcast,
                    out |-> IF nowcast THEN PmNowcast(invar)
                            ELSE invar[Len(invar)]]
        /\ UNCHANGED <<par, df, cls, weights, dweights, nneigh, how, fitted,
                       fitX, fitY, yndim, fitW, ug, dnrs, serrkn, fitargs>>

\* the hours of the cell in the file: missing, negative, zero, below the cap
\* or above it
InitGet ==
    /\ NoRegressor
    /\ par = NoPar
    /\ \E x \in [1..NHours -> {NaN, I(-1), Zero, One, I(MaxVal + 1)}] :
          df = [rows |-> x, out |-> <<>>]

NextGet == last = NoCall /\ \E nowcast \in BOOLEAN : NaqfcGet(nowcast)

SpecGet == InitGet /\ [][NextGet]_vars

-----------------------------------------------------------------------------
(* airfuse/mod/naqfc.py open_operational: the search for the forecast file
   of the hour that begins at bdate.  Times are hours since a midnight.
   df.remote gives, by file date and cycle, what the request and the opening
   of the file do: "404", "ok" (the file holds the hour), "KeyError" (it
   does not) or "error" (another exception).  One call of open_operational
   is one step; df.depth counts the calls on the stack. *)

\* the calls the interpreter lets a call stack hold
RecursionLimit == 6

\* the body of `for sh in [12, 6]` for one cycle: "skip" where the window of
\* the cycle does not hold the hour, else what the request gives
CycleResult(filedate, sh) ==
    LET edate == df.bdate + 1
        firsth == filedate + sh + 1
        lasth == filedate + 72 + 1
    IN  IF firsth > edate \/ lasth < edate THEN "skip"
        ELSE df.remote[<<filedate, sh>>]

\* the loop over the cycles 12 and 6: the file is returned, an exception is
\* raised, or the loop ends and the else branch steps back
LoopResult(filedate) ==
    LET first == CycleResult(filedate, 12)
    IN  IF first \in {"ok", "error"} THEN first
        ELSE IF CycleResult(filedate, 6) \in {"ok", "error"}
        THEN CycleResult(filedate, 6)
        ELSE "else"

\* one call of open_operational(bdate, filedate=filedate, failback=failback):
\* it returns the file, raises, or calls itself with the file date one
\* failback earlier; the call the stack cannot hold raises RecursionError
OpenOperational ==
    LET r == LoopResult(df.filedate)
    IN  /\ df.status = "running"
        /\ df' = IF r = "ok" THEN [df EXCEPT !.status = "returned"]
                 ELSE IF r = "error"
                 THEN [df EXCEPT !.status = "raised", !.err = "Exception"]
                 ELSE IF df.depth = RecursionLimit
                 THEN [df EXCEPT !.status = "raised", !.err = "RecursionError"]
                 ELSE [df EXCEPT !.filedate = df.filedate - df.failback,
                                 !.depth = df.depth + 1]
        /\ last' = [op |-> "open_operational", filedate |-> df.filedate]
        /\ UNCHANGED <<par, cls, weights, dweights, nneigh, how, fitted, fitX,
                       fitY, yndim, fitW, ug, dnrs, serrkn, fitargs>>

\* open_operational(bdate) is called for 05Z or 13Z of the eleventh day,
\* with a failback of one day or two; filedate is bdate.floor('1d')
InitOperational ==
    /\ NoRegressor
    /\ par = NoPar
    /\ \E bdate \in {240 + 5, 240 + 13} : \E failback \in {24, 48} :
       \E remote \in [{192, 216, 240} \X {12, 6} ->
                         {"404", "ok", "KeyError", "error"}] :
          df = [bdate |-> bdate, failback |-> failback, remote |-> remote,
                filedate |-> Floor1d(bdate), depth |-> 1,
                status |-> "running", err |-> ""]

NextOperational == OpenOperational

SpecOperational == InitOperational /\ [][NextOperational]_vars

-----------------------------------------------------------------------------
(* Claims about the weights, checked under SpecWeights *)

Called == last.op = "_get_weights"

\* the distance of neighbour i of the last call from its query point
NeighDist(i) == Dist(fitX[last.out.ind[i]], last.q)

\* C1: under weights="distance", a row with a neighbour at distance exactly 0
\* gives base weight 1 to every zero-distance neighbour and 0 to every other
\* neighbour; a row without one gives every neighbour 1/distance
C1_DistanceBaseWeights ==
    (Called /\ weights.kind = "distance") =>
        LET b == last.out.base
        IN  /\ ~b.none
            /\ Len(b.v) = nneigh
            /\ IF \E i \in 1..nneigh : NeighDist(i) = 0
               THEN \A i \in 1..nneigh :
                      b.v[i] = IF NeighDist(i) = 0 THEN One ELSE Zero
               ELSE \A i \in 1..nneigh : FMul(b.v[i], I(NeighDist(i))) = One

\* a row with two neighbours at distance 0 and one farther away
C1_Witness ==
    /\ Called /\ weights.kind = "distance"
    /\ nneigh = 3
    /\ NeighDist(1) = 0 /\ NeighDist(2) = 0 /\ NeighDist(3) > 0
    /\ last.out.base.v = <<One, One, Zero>>

\* C2: with a Delaunay policy in effect, under every weights mode, a
\* neighbour at zero distance from the query point is marked adjacent in the
\* mask handed to the delaunay_weights policy, whatever the triangulation gave
C2_ZeroDistanceAdjacent ==
    (Called /\ last.out.handed) =>
        \A i \in 1..nneigh : NeighDist(i) = 0 => last.out.isdn[i]

\* C3: _isdelaunay returns a mask of length k for every query row and never
\* raises, duplicate or collinear points included; when the triangulation
\* gives no adjacent vertex exactly the nearest three positions are True, and
\* no mask is all False
C3_IsDelaunayTotal ==
    (Called /\ last.out.called) =>
        /\ last.out.pw.err # "QhullError"
        /\ Len(last.out.isd) = nneigh
        /\ last.tri = {} => \A i \in 1..nneigh : last.out.isd[i] = (i <= 3)
        /\ \E i \in 1..nneigh : last.out.isd[i]

\* C4: for uniform and inverse-distance base weights and every adjacency
\* mask, the policy's weights are: "only" the base weight where adjacent and
\* 0 elsewhere, "equal" 1 where adjacent and 0 elsewhere, None the base
\* weight, a number s the base weight times s where adjacent and times 1
\* elsewhere (None as an array of weights stands for equal weights)
C4_PolicyWeights ==
    (Called /\ weights.kind \in {"uniform", "distance"}
            /\ last.out.pw.err # "QhullError") =>
        LET b == IF last.out.base.none THEN Ones(nneigh) ELSE last.out.base.v
            pw == last.out.pw
            f == IF pw.w.none THEN Ones(nneigh) ELSE pw.w.v
            kind == dweights.kind
        IN  /\ pw.err = ""
            /\ \A i \in 1..nneigh :
                 f[i] = IF kind = "None" THEN b[i]
                        ELSE IF kind = "only"
                        THEN (IF last.out.isdn[i] THEN b[i] ELSE Zero)
                        ELSE IF kind = "equal"
                        THEN (IF last.out.isdn[i] THEN One ELSE Zero)
                        ELSE FMul(b[i], IF last.out.isdn[i]
                                        THEN I(dweights.s) ELSE One)

\* C6: whenever sample_weight was given to fit, the final weight of each
\* neighbour is the policy's weight times the neighbour's stored sample
\* weight, under every weights mode and every policy
C6_SampleWeightApplied ==
    (Called /\ ~fitW.none /\ last.out.pw.err = "") =>
        LET pw == IF last.out.pw.w.none THEN Ones(nneigh) ELSE last.out.pw.w.v
        IN  /\ last.out.err = ""
            /\ \A i \in 1..nneigh :
                 last.out.w.v[i] = FMul(pw[i], fitW.v[last.out.ind[i]])

-----------------------------------------------------------------------------
(* Claims about the Grouped regressor, checked under SpecGrouped *)

Predicted == last.op = "predict"

RECURSIVE SumTo(_, _)
\* f[1] + ... + f[n]
SumTo(n, f) == IF n = 0 THEN Zero ELSE FAdd(SumTo(n - 1, f), f[n])

\* the weight the Grouped predict gives neighbour i of group n at row r
GroupWeight(n, r, i) ==
    IF last.out.gw[n][r].w.none THEN One ELSE last.out.gw[n][r].w.v[i]

\* the value of column j of neighbour i of group n at row r
GroupValue(n, r, i, j) == dnrs[ug[n]].y[last.out.gw[n][r].ind[i]][j]

\* the sum of the weights of all groups' neighbours at row r
TotalWeight(r) ==
    SumTo(Len(ug), [n \in 1..Len(ug) |->
        SumTo(nneigh, [i \in 1..nneigh |-> GroupWeight(n, r, i)])])

\* the sum of weight times value over all groups' neighbours at row r
TotalWeighted(r, j) ==
    SumTo(Len(ug), [n \in 1..Len(ug) |->
        SumTo(nneigh, [i \in 1..nneigh |->
            FMul(GroupWeight(n, r, i), GroupValue(n, r, i, j))])])

WeightsComputed == \A n \in 1..Len(ug) : BatchErr(last.out.gw[n]) = ""

\* the batch and its triangulations without row r
Without(seq, r) == SubSeq(seq, 1, r - 1) \o SubSeq(seq, r + 1, Len(seq))

\* C5: a query row whose final neighbour weights sum to zero gives
\* not-a-number in every output column of the row: predict does not raise,
\* and the other rows of the batch are what they are without the row
C5_ZeroWeightRowIsNaN ==
    (Predicted /\ WeightsComputed) =>
        \A r \in 1..Len(last.Q) : TotalWeight(r) = Zero =>
            /\ last.out.err = ""
            /\ \A j \in 1..Len(last.out.rows[r]) : IsNaN(last.out.rows[r][j])
            /\ Without(last.out.rows, r) =
                 GroupedPredict(weights, ug, dnrs, Without(last.Q, r),
                     [g \in DOMAIN last.T |-> Without(last.T[g], r)]).rows

\* the Base regressor with the construction options and the data of the
\* single group g of the Grouped regressor
BaseLike(g) ==
    Dnr(IF weights.kind = "dict"
        THEN [kind |-> "callable", clip |-> [x \in Groups |-> weights.clip[g]]]
        ELSE weights,
        dweights, nneigh, dnrs[g].fit_X, dnrs[g].y, dnrs[g].ndim, dnrs[g].wgt)

\* C7: fit with all rows in a single group, Grouped predict equals Base
\* predict on the same data, query rows and construction options, for y of
\* one column (1-D or 2-D) and of several columns
C7_SingleGroupEqualsBase ==
    (Predicted /\ Len(ug) = 1) =>
        LET b == BasePredict(BaseLike(ug[1]), last.Q, last.T[ug[1]])
        IN  /\ last.out.err = b.err
            /\ last.out.rows = b.rows

\* C8: each group's neighbours are the nearest rows of the group itself, its
\* base weights are those of the group's own weight function, and every
\* output is the sum over all groups' neighbours of weight times the
\* neighbour's own value, divided by the one sum of all groups' weights
C8_GroupedJointMean ==
    (Predicted /\ last.out.err = "") =>
        \A r \in 1..Len(last.Q) :
            /\ \A n \in 1..Len(ug) :
                LET g == ug[n]
                    X == dnrs[g].fit_X
                    o == last.out.gw[n][r]
                    d(x) == Dist(X[x], last.Q[r])
                    chosen == {o.ind[i] : i \in 1..nneigh}
                IN  /\ Cardinality(chosen) = nneigh
                    /\ chosen \subseteq 1..Len(X)
                    /\ \A x \in chosen : \A z \in (1..Len(X)) \ chosen : d(x) <= d(z)
                    /\ weights.kind = "dict" =>
                         \A i \in 1..nneigh :
                            o.base.v[i] = ClipInvSq(I(d(o.ind[i])), weights.clip[g])
            /\ \A j \in 1..Len(last.out.rows[r]) :
                 last.out.rows[r][j] = FDiv(TotalWeighted(r, j), TotalWeight(r))

\* two groups with their own weight functions and unequal weight sums, so
\* that a normalization by group would give another result
C8_Witness ==
    /\ Predicted /\ last.out.err = ""
    /\ Len(ug) = 2 /\ weights.kind = "dict" /\ dweights.kind = "only"
    /\ SumTo(nneigh, [i \in 1..nneigh |-> GroupWeight(1, 1, i)])
         # SumTo(nneigh, [i \in 1..nneigh |-> GroupWeight(2, 1, i)])
    /\ IsFinite(last.out.rows[1][1]) /\ IsFinite(last.out.rows[1][2])
    /\ last.out.gw[1][1].base # last.out.gw[2][1].base

-----------------------------------------------------------------------------
(* Claims about the Fused regressor, checked under SpecFused *)

\* the distance from query row q to the nearest training row of group g
MinDist(g, q) ==
    LET X == dnrs[g].fit_X
    IN  CHOOSE d \in {Dist(X[i], q) : i \in 1..Len(X)} :
            \A i \in 1..Len(X) : d <= Dist(X[i], q)

\* fw_g at the query row r: fusion_weight[g](regressor_g, X)
Fw(g, r) ==
    FMul(Fusion[g].c, ClipInvSq(I(MinDist(g, last.Q[r])), Fusion[g].clip))

\* pred_g at the query row r: group g's own Base prediction of the row
Pred(g, r) == BasePredict(dnrs[g], <<last.Q[r]>>, <<last.T[g][r]>>).rows[1]

Reverse(seq) == [i \in 1..Len(seq) |-> seq[Len(seq) + 1 - i]]

\* C9: every output of Fused predict is the sum over the groups of the
\* group's fusion weight times the group's own Base prediction, divided by
\* the sum of the fusion weights, and iterating the groups in the reverse
\* order gives the same result
C9_FusedWeightedMean ==
    (Predicted /\ last.out.err = "") =>
        /\ \A r \in 1..Len(last.Q) : \A j \in 1..Len(last.out.rows[r]) :
              last.out.rows[r][j] =
                 FDiv(SumTo(Len(ug), [n \in 1..Len(ug) |->
                          FMul(Fw(ug[n], r), Pred(ug[n], r)[j])]),
                      SumTo(Len(ug), [n \in 1..Len(ug) |-> Fw(ug[n], r)]))
        /\ FusedPredict(Fusion, Reverse(ug), dnrs, last.Q, last.T).rows
              = last.out.rows

\* two groups whose fusion weights and whose predictions differ at a row
C9_Witness ==
    /\ Predicted /\ last.out.err = "" /\ cls = "Fused"
    /\ Len(ug) = 2
    /\ Fw("a", 1) # Fw("b", 1)
    /\ Pred("a", 1) # Pred("b", 1)
    /\ IsFinite(last.out.rows[1][1]) /\ IsFinite(last.out.rows[1][2])

-----------------------------------------------------------------------------
(* Claims about the bias-correcting regressor, checked under SpecBC *)

\* the interpolated columns [initial estimate, observations] at query row r
Interpolated(r) ==
    CorePredict(weights, ug, dnrs, <<last.Q[r]>>,
                [g \in DOMAIN last.T |-> <<last.T[g][r]>>]).rows[1]

\* raw_background + obs_dnr - mod_dnr at row r, observation column j
AbcAt(r, j) ==
    FSub(FAdd(last.raw[r], Interpolated(r)[1 + j]), Interpolated(r)[1])

\* raw_background * obs_dnr / mod_dnr at row r, observation column j
MbcAt(r, j) ==
    FDiv(FMul(last.raw[r], Interpolated(r)[1 + j]), Interpolated(r)[1])

Half(x) == FMul(x, <<1, 2>>)

\* C10: where predict computes them, abc is raw_background + obs_dnr -
\* mod_dnr, mbc is raw_background * obs_dnr / mod_dnr, and ambc is the mean
\* of abc and mbc at the rows with abc >= 0 and mbc at the rows with abc < 0
C10_BiasCorrections ==
    (Predicted /\ last.out.err = "") =>
        \A r \in 1..Len(last.Q) : \A j \in 1..Len(last.out.store.obs_dnr[r]) :
            LET abc == AbcAt(r, j)
                mbc == MbcAt(r, j)
                st == last.out.store
            IN  /\ "mod_abc" \in Needs[how] => st.mod_abc[r][j] = abc
                /\ "mod_mbc" \in Needs[how] => st.mod_mbc[r][j] = mbc
                /\ "mod_ambc" \in Needs[how] =>
                     /\ (IsInf(abc) /\ abc[1] > 0) \/ (IsFinite(abc) /\ abc[1] >= 0)
                           => st.mod_ambc[r][j] = Half(FAdd(abc, mbc))
                     /\ (IsInf(abc) /\ abc[1] < 0) \/ (IsFinite(abc) /\ abc[1] < 0)
                           => st.mod_ambc[r][j] = mbc

\* a batch with a row of negative abc, where ambc is mbc and not the mean,
\* and a row of positive abc, where ambc is the mean and not mbc
C10_Witness ==
    /\ Predicted /\ last.out.err = "" /\ cls = "BCGrouped" /\ how = "ambc"
    /\ Len(last.Q) = 2
    /\ \E r \in 1..2 :
          /\ IsFinite(AbcAt(r, 1)) /\ AbcAt(r, 1)[1] < 0
          /\ last.out.rows[r][1] = MbcAt(r, 1)
          /\ MbcAt(r, 1) # Half(FAdd(AbcAt(r, 1), MbcAt(r, 1)))
    /\ \E r \in 1..2 :
          /\ IsFinite(AbcAt(r, 1)) /\ AbcAt(r, 1)[1] > 0
          /\ last.out.rows[r][1] = Half(FAdd(AbcAt(r, 1), MbcAt(r, 1)))
          /\ MbcAt(r, 1) # last.out.rows[r][1]

-----------------------------------------------------------------------------
(* Claims about the modes of the BC regressor, checked under SpecModes *)

\* the columns the quantity named key holds at row r of the last predict
Quantity(key, r) ==
    LET st == last.out.store
    IN  CASE key = "w_obs_dnr" -> <<st.w[r][1]>>
          [] key = "w_mod_abc" -> <<st.w[r][2]>>
          [] key = "w_mod_mbc" -> <<st.w[r][3]>>
          [] key = "w_mod_ambc" -> <<st.w[r][4]>>
          [] OTHER -> st[key][r]

\* what the mode h names, in the order it names them
Named(h) ==
    CASE h = "obs" -> <<"obs_dnr">>
      [] h = "abc" -> <<"mod_abc">>
      [] h = "mbc" -> <<"mod_mbc">>
      [] h = "ambc" -> <<"mod_ambc">>
      [] h = "individual" -> <<"obs_dnr", "mod_abc", "mod_mbc", "mod_ambc">>
      [] h = "best" -> <<"mod_bbc">>
      [] h = "debug" -> <<"obs_dnr", "mod_abc", "mod_mbc", "mod_ambc",
                          "w_obs_dnr", "w_mod_mbc", "w_mod_abc", "w_mod_ambc",
                          "mod_bbc">>

\* C11: a BC regressor constructed and fit with one of the modes obs, abc,
\* mbc, ambc, individual, best, debug returns from predict the quantities the
\* mode names, and nothing else
C11_ModeReturnsNamed ==
    (Predicted /\ cls = "BCGrouped" /\ how \in DOMAIN Returns) =>
        /\ last.out.err = ""
        /\ \A r \in 1..Len(last.Q) :
              last.out.rows[r] =
                 Flatten([i \in 1..Len(Named(how)) |-> Quantity(Named(how)[i], r)])

-----------------------------------------------------------------------------
(* Claims about distweight, checked under SpecDist *)

Weighted == last.op = "distweight"

\* the sources that have a value at a row
Present(row) == {i \in 1..NSrc : ~IsNaN(row.val[i])}

\* the sum of f over the sources of S
RECURSIVE SumOver(_, _)
SumOver(S, f) ==
    IF S = {} THEN Zero
    ELSE LET i == CHOOSE x \in S : TRUE
         IN  FAdd(f[i], SumOver(S \ {i}, f))

\* C12: a source whose value is missing at a row has raw and normalized
\* weight 0 there; the normalized weights of the other sources sum to 1 at
\* every row where a source has a positive raw weight; at a row of zero total
\* weight every normalized weight is 0
C12_NormalizedWeights ==
    Weighted =>
        \A r \in 1..Len(last.rows) :
            LET row == last.rows[r]
                o == last.out[r]
            IN  /\ \A i \in (1..NSrc) \ Present(row) :
                      o.wgts[i] = Zero /\ o.nwgts[i] = Zero
                /\ (\E i \in 1..NSrc : FLess(Zero, o.wgts[i])) =>
                      SumOver(Present(row), o.nwgts) = One
                /\ o.totwgt = Zero => \A i \in 1..NSrc : o.nwgts[i] = Zero

\* a row where one source is missing and the other, of a raw weight that is
\* not 1, has the normalized weight 1
C12_Witness ==
    /\ Weighted
    /\ \E i \in 1..NSrc : \E j \in 1..NSrc :
          /\ IsNaN(last.rows[1].val[i]) /\ ~IsNaN(last.rows[1].val[j])
          /\ last.out[1].wgts[j] \notin {Zero, One}
          /\ last.out[1].nwgts = [n \in 1..NSrc |-> IF n = j THEN One ELSE Zero]

\* the blend of the sources at row r of the last call
BlendAt(r) ==
    SumOver(Present(last.rows[r]),
            [i \in 1..NSrc |-> FMul(last.out[r].nwgts[i], last.rows[r].val[i])])

\* C13: the fused value of a row is bc_weight * sum_i(nwgt_i * value_i) +
\* (1 - bc_weight) * background; a row of zero total weight has bc_weight 0
\* and the background as its fused value; a row whose background is missing
\* has nan whatever its sources hold, and the rows beside it have their values
C13_FusedValue ==
    Weighted =>
        \A r \in 1..Len(last.rows) :
            LET row == last.rows[r]
                o == last.out[r]
            IN  /\ ~IsNaN(row.mod) =>
                      o.y = FAdd(FMul(o.bc_wgt, BlendAt(r)),
                                 FMul(FSub(One, o.bc_wgt), row.mod))
                /\ o.totwgt = Zero => o.bc_wgt = Zero
                /\ o.totwgt = Zero /\ ~IsNaN(row.mod) => o.y = row.mod
                /\ IsNaN(row.mod) => IsNaN(o.y)

\* a table whose first row has no background and is nan, beside a row that
\* is fused from two sources and the background, and equals none of them
C13_Witness ==
    /\ Weighted
    /\ Len(last.rows) = 2
    /\ IsNaN(last.rows[1].mod) /\ Present(last.rows[1]) # {}
    /\ IsNaN(last.out[1].y)
    /\ FLess(Zero, last.out[2].bc_wgt) /\ FLess(last.out[2].bc_wgt, One)
    /\ IsFinite(last.out[2].y)
    /\ last.out[2].y \notin {last.rows[2].mod, BlendAt(2)}

\* the smallest distance among the sources that have a value at the row
MinDistOfPresent(row) ==
    MinSkipNa([i \in 1..NSrc |-> IF IsNaN(row.val[i]) THEN NaN ELSE row.dist[i]])

\* C14: the logistic trust factor bc_weight of a row is computed from the
\* smallest distance among the sources whose value is present at the row: a
\* source whose value is missing has no part in it
C14_NearestAvailable ==
    Weighted =>
        \A r \in 1..Len(last.rows) :
            LET row == last.rows[r]
                o == last.out[r]
            IN  (Present(row) # {} /\ FLess(Zero, o.totwgt)) =>
                   o.bc_wgt = Logistic(MinDistOfPresent(row), last.x0)

-----------------------------------------------------------------------------
(* Claims about the slicing of _isdelaunay, checked under SpecJobs *)

\* the tasks that get query row r (counted from 1) of a call of n_jobs tasks
TasksOf(se, n_jobs, r) == {i \in 1..n_jobs : se[i] < r /\ r <= se[i + 1]}

\* C15: _isdelaunay with n_jobs >= 1 gives the tasks contiguous slices in row
\* order, every row to one task and one only, whatever n >= 0 and n_jobs; and
\* the concatenated result is that of n_jobs=None, in whatever order the
\* workers finish
C15_SlicesCoverRows ==
    /\ par.on =>
          /\ Len(par.se) = par.n_jobs + 1
          /\ par.se[1] = 0
          /\ \A i \in 1..par.n_jobs : par.se[i] <= par.se[i + 1]
          /\ \A r \in 1..Len(par.tris) :
                Cardinality(TasksOf(par.se, par.n_jobs, r)) = 1
    /\ last.op = "_isdelaunay" => last.out = IsDelaunaySeq(last.k, last.tris)

\* three rows of different masks went to two tasks, one row and two, and the
\* second task finished first
C15_Witness ==
    /\ last.op = "_isdelaunay"
    /\ Len(last.tris) = 3 /\ last.n_jobs = 2
    /\ last.se = <<0, 1, 3>>
    /\ last.order = <<2, 1>>
    /\ last.out.err = ""
    /\ last.out.rows[1] # last.out.rows[2] /\ last.out.rows[2] # last.out.rows[3]

-----------------------------------------------------------------------------
(* Claims about the life of a regressor, checked under SpecLife *)

\* what fit stores and predict consults, and the parameters
FittedState == <<fitted, fitX, fitY, yndim, fitW, ug, dnrs, serrkn, how,
                 weights, dweights, nneigh>>

\* predict on the input of the call c
PredictAgain(c) ==
    CASE cls = "Base" -> BasePredict(Self, c.Q, c.T)
      [] cls = "Grouped" -> GroupedPredict(weights, ug, dnrs, c.Q, c.T)
      [] cls = "Fused" -> FusedPredict(Fusion, ug, dnrs, c.Q, c.T)
      [] cls = "BCGrouped" -> BCPredict(how, weights, ug, dnrs, serrkn, c.Q,
                                        c.raw, c.T, c.T2)

\* C16: a predict of a Base, Grouped, Fused or BC regressor leaves what fit
\* stored, and the how mode, as they were, so that a predict on the same
\* input returns what this one returned
C16_PredictKeepsState ==
    [][(last'.op = "predict" /\ last' # last) =>
          /\ UNCHANGED FittedState
          /\ last'.out = PredictAgain(last')]_vars

\* a BC regressor under 'best' predicted a blend from its stored regressors
C16_Witness ==
    /\ Predicted /\ cls = "BCGrouped" /\ how = "best" /\ serrkn.set
    /\ last.out.err = ""
    /\ \E r \in 1..Len(last.Q) : IsFinite(last.out.rows[r][1])

\* the regressor of the cross-validated squared errors that a fit under
\* 'best' builds from the arguments a, and no other
SerrknOf(a) ==
    LET obs == [i \in 1..Len(a.y) |-> Tail(a.y[i])]
    IN  {[set |-> TRUE, ug |-> Unique(a.groups),
          dnrs |-> FitDnrs(weights, dweights, nneigh, a.X,
                      SquaredErrors(CrossValPredict(weights, dweights, nneigh,
                                       a.X, a.y, a.sw, a.groups, TT).rows, obs),
                      2, a.sw, a.groups)] :
            TT \in CVTris(weights, dweights, nneigh, a.X, a.y, a.sw, a.groups)}

\* what predict consults comes from the arguments of the last fit that
\* returned, the regressor of the errors left aside
MainFromLastFit ==
    IF cls = "Base"
    THEN /\ fitX = fitargs.X /\ fitY = fitargs.y /\ yndim = fitargs.ndim
         /\ fitW = fitargs.sw
    ELSE /\ ug = Unique(fitargs.groups)
         /\ dnrs = FitDnrs(weights, dweights, nneigh, fitargs.X, fitargs.y,
                           fitargs.ndim, fitargs.sw, fitargs.groups)

\* C17: after any sequence of fits, what predict consults was produced by the
\* most recent fit: coordinates, values and sample weights (Base), group
\* labels and per-group regressors (Grouped, Fused), and the regressor of the
\* cross-validated errors (BC), also when how was changed between the fits
C17_FitReplacesAll ==
    fitted =>
        /\ MainFromLastFit
        /\ serrkn.set => serrkn \in SerrknOf(fitargs)

\* C18: a string that names no weights, no delaunay_weights policy or no how
\* mode is rejected when it is given, to the constructor or to set_how; no
\* regressor holds one
C18_UnknownRejected ==
    /\ weights.kind # "str"
    /\ dweights.kind # "str"
    /\ cls = "BCGrouped" => how \in DOMAIN Needs

\* C19: fit raises when X and y have different row counts, in the Base, the
\* Grouped and Fused and the BC regressors: no fit returns on such rows, and
\* what a fit stored holds as many values as coordinates
C19_MismatchRaises ==
    /\ (last.op = "fit" /\ last.rows[1] # last.rows[2]) =>
          last.err \in {"ValueError", "IndexError", "InvalidParameterError"}
    /\ Len(fitargs.X) = Len(fitargs.y)
    /\ fitted =>
          IF cls = "Base" THEN Len(fitX) = Len(fitY)
          ELSE \A g \in DOMAIN dnrs : Len(dnrs[g].fit_X) = Len(dnrs[g].y)

\* a fit given more coordinates than values raised, after an earlier fit had
\* returned, and the regressor holds the rows of the earlier fit
C19_Witness ==
    /\ last.op = "fit" /\ last.rows[1] > last.rows[2]
    /\ last.err \in {"ValueError", "IndexError"}
    /\ fitargs # NoFit
    /\ cls \in {"Base", "BCGrouped"} => fitted /\ MainFromLastFit

-----------------------------------------------------------------------------
(* Claims about pairing and fusing, checked under SpecPair *)

Complete(row) == ~IsNaN(row.obs) /\ ~IsNaN(row.mod)

AllComplete(rows) == \A i \in DOMAIN rows : Complete(rows[i])

\* C20: no row with a missing observation or a missing co-located background
\* value reaches a regressor's fit: obs.pair returns only rows where both are
\* present, whatever query string the caller passes, and utils.fuse hands
\* none of them to cross_val_predict or to fit
C20_NoMissingRowIsFit ==
    /\ last.op = "pair" => AllComplete(last.out)
    /\ last.op = "fuse" => AllComplete(last.cv) /\ AllComplete(last.fit)

-----------------------------------------------------------------------------
(* Claims about applyfusion, checked under SpecFusionCV *)

Fused == last.op = "applyfusion"

\* the distance from row i of fitdf to row j
RowDist(i, j) == Dist(df.rows[i].xy, df.rows[j].xy)

\* the rows of the other folds than the fold of row i
OtherFolds(i) == {j \in DOMAIN df.rows : last.fold[j] # last.fold[i]}

\* C21: under cross-validation every row of fitdf is in one fold, and its
\* CV_DIST is the distance to the nearest row of the other folds, never to
\* itself or to a row of its own fold, in whatever order the folds were taken
C21_CVDistFromOtherFolds ==
    (Fused /\ last.cv) =>
        \A i \in DOMAIN df.rows :
            /\ last.fold[i] >= 0
            /\ OtherFolds(i) # {}
            /\ \E j \in OtherFolds(i) : last.CV_DIST[i] = RowDist(i, j)
            /\ \A j \in OtherFolds(i) : last.CV_DIST[i] <= RowDist(i, j)

\* a row had a row of its own fold nearer than every row of the other folds,
\* in the fold that was not taken last
C21_Witness ==
    /\ Fused /\ last.cv
    /\ \E i \in DOMAIN df.rows : \E j \in DOMAIN df.rows :
          /\ i # j /\ last.fold[i] = last.fold[j] /\ last.fold[i] = 0
          /\ RowDist(i, j) < last.CV_DIST[i]

\* C22: leave-one-out on two training points or more: the neighbours and the
\* distance of a training point come from the other training points of the
\* mod fit on all of fitdf, and the point is never its own neighbour
C22_LooExcludesSelf ==
    (Fused /\ last.loo) =>
        /\ last.mod = DOMAIN df.rows
        /\ \A i \in DOMAIN df.rows :
              /\ \A r \in DOMAIN last.looidx[i] : last.looidx[i][r] # i
              /\ \A j \in DOMAIN df.rows \ {i} :
                    last.LOO_DIST[i] <= RowDist(i, j)
              /\ \E j \in DOMAIN df.rows \ {i} :
                    last.LOO_DIST[i] = RowDist(i, j)

-----------------------------------------------------------------------------
(* Claims about set_how and fit of the BC regressor, checked under SpecBC *)

\* C23: set_how may follow fit: whatever mode the regressor was fit under,
\* after set_how(m2) a predict returns the outputs of m2, one column for each
\* quantity m2 names, and raises nothing
C23_SetHowThenPredict ==
    (Predicted /\ fitted /\ how \in {"obs", "abc", "mbc", "ambc",
                                      "individual", "best"}) =>
        /\ last.out.err = ""
        /\ \A r \in 1..Len(last.Q) : Len(last.out.rows[r]) = Len(Named(how))

\* C24: a fit of the BC regressor leaves how as it was configured on every
\* exit: under 'best' how is 'individual' only while fit runs, and the
\* configured mode is back when fit returns and when fit raises
C24_FitKeepsHow ==
    [][(fitargs' # fitargs \/ (last'.op = "fit" /\ last' # last)) =>
          how' = how]_vars

-----------------------------------------------------------------------------
(* Claims about the blend of the BC regressor, checked under SpecModes *)

Blended == Predicted /\ how = "best" /\ last.out.err = ""

\* the four quantities of row r of the last predict, in the order obs_dnr,
\* abc, mbc, ambc
Quantities(r) ==
    LET st == last.out.store
    IN  <<st.obs_dnr[r][1], st.mod_abc[r][1], st.mod_mbc[r][1],
          st.mod_ambc[r][1]>>

\* what the regressor of the errors predicts at the rows of the last predict
ErrorSurface == CorePredict(weights, serrkn.ug, serrkn.dnrs, last.Q, last.T2).rows

\* column c of what the regressor of the errors was fit on is the squared
\* error of the cross-validated quantity c
ErrorsByQuantity ==
    \E TT \in CVTris(weights, dweights, nneigh, fitargs.X, fitargs.y,
                     fitargs.sw, fitargs.groups) :
       LET cv == CrossValPredict(weights, dweights, nneigh, fitargs.X,
                                 fitargs.y, fitargs.sw, fitargs.groups, TT).rows
           sq(a, b) == FMul(FSub(a, b), FSub(a, b))
       IN  serrkn.dnrs =
              FitDnrs(weights, dweights, nneigh, fitargs.X,
                      [i \in 1..Len(cv) |->
                          [c \in 1..4 |-> sq(cv[i][c], fitargs.y[i][2])]],
                      2, fitargs.sw, fitargs.groups)

-----------------------------------------------------------------------------
(* Claims about biascorrect, checked under SpecBias *)

\* C26: biascorrect writes for every row mbc = mod * obshat / modhat,
\* abc = mod + obshat - modhat and bc = mbc if abc < 0 else avg(mbc, abc), as
\* the bc variable is described; a row with abc = 0 gets the average
C26_BcAsDocumented ==
    last.op = "biascorrect" =>
        \A i \in DOMAIN df.rows :
            LET row == df.rows[i]
                o == df.out[i]
                mbc == FDiv(FMul(row.mod, row.obshat), row.modhat)
                abc == FSub(FAdd(row.mod, row.obshat), row.modhat)
            IN  /\ o.mbc = mbc
                /\ o.abc = abc
                /\ o.bc = IF FLess(abc, Zero) THEN mbc
                          ELSE FDiv(FAdd(mbc, abc), I(2))

-----------------------------------------------------------------------------
(* Claims about naqfc.acquire, checked under SpecAcquire *)

\* the reference time of the file a candidate stands for: the cached file,
\* or the remote one, or -1
FileOf(o) ==
    IF ~Absent(last.before, o.dest) THEN last.before[o.dest]
    ELSE IF ~Absent(df.remote, o.dest) THEN df.remote[o.dest] ELSE -1

\* the candidate has a file whose reference time is before the date
Qualifies(o) ==
    /\ df.date > o.sdate /\ df.date < o.sdate + 72
    /\ FileOf(o) >= 0 /\ FileOf(o) < df.date

\* C27: acquire(date) returns the path of a file that covers the date, with
\* its reference time before the date and the date within its 72 hours,
\* downloaded or cached; it is the first candidate in the order NOMADS 12Z,
\* AWS 12Z, NOMADS 06Z, AWS 06Z, TGFTP by file date that has such a file,
\* and IOError is raised when there is none
C27_AcquireCovers ==
    last.op = "acquire" =>
        LET opts == AllOpts(df.date, df.now)
        IN  IF last.err = ""
            THEN /\ last.reftime < df.date /\ df.date < last.reftime + 72
                 /\ \E i \in DOMAIN opts :
                       /\ opts[i].dest = last.path /\ Qualifies(opts[i])
                       /\ \A j \in 1..(i - 1) : ~Qualifies(opts[j])
            ELSE /\ last.err = "IOError"
                 /\ \A i \in DOMAIN opts : ~Qualifies(opts[i])

-----------------------------------------------------------------------------
(* Claims about naqfc.get, checked under SpecGet *)

\* the hours get reads: the hour of the date, or all hours for the nowcast
SourceHours == IF last.nowcast THEN DOMAIN df.rows ELSE {Len(df.rows)}

\* C28: a value naqfc.get returns, hourly or nowcast, is at most maxval:
\* source values at or above maxval count as maxval, a missing value stays
\* missing, and source values that are not negative give a result within
\* [0, maxval]
C28_GetWithinCap ==
    last.op = "get" =>
        /\ ~FLess(I(MaxVal), last.out)
        /\ (\A i \in SourceHours : IsNaN(df.rows[i])) => IsNaN(last.out)
        /\ (\A i \in SourceHours : ~FLess(df.rows[i], Zero)
                                     /\ ~IsNaN(df.rows[i])) =>
              /\ ~IsNaN(last.out)
              /\ ~FLess(last.out, Zero)

-----------------------------------------------------------------------------
(* Claims about open_operational, checked under SpecOperational *)

\* a file of the file date can hold the hour: the hour is not after the 72
\* hours of its cycles
CanHold(filedate) == filedate + 72 + 1 >= df.bdate + 1

\* C29: open_operational ends for every pattern of the remote files: when no
\* file that holds the hour can be had, the search over earlier file dates
\* ends with an error of its own after the file dates that can hold the
\* hour, and does not step back one failback after another without bound
C29_SearchEnds ==
    /\ df.status = "running" => CanHold(df.filedate + df.failback)
    /\ df.status = "raised" => df.err # "RecursionError"

-----------------------------------------------------------------------------
(* Claims about the fit of the Grouped regressor, checked under SpecLife *)

\* C30: a fit of a Grouped regressor that raises leaves the per-group
\* regressors and the groups of the previous fit that returned: predict
\* never finds an empty or partial set of groups
C30_GroupedFitAllOrNothing ==
    [][(cls \in {"Grouped", "Fused"} /\ fitted
          /\ last'.op = "fit" /\ last' # last) =>
          fitted' /\ dnrs' = dnrs /\ ug' = ug]_vars

=============================================================================
